---- MODULE Spec2Model ----
(***************************************************************************)
(* Model of the RoutingEngine: the GTFS loader of Graph (graph.cpp) and    *)
(* the search of Pathfinder (pathfinder.cpp).                              *)
(*                                                                         *)
(* Numbers.  The program computes in double; the model computes in         *)
(* integers with fixed units: distances and coordinates in metres, times   *)
(* in milliseconds, speeds in centimetres per second, so that              *)
(* dist / speed of the code is (dist * 100000) \div speed here.            *)
(* Coordinates.  lat is the distance in metres along the meridian from the *)
(* equator and lon the distance in metres along the equator from the prime *)
(* meridian (degrees times MetresPerDegree).  The points of the searches   *)
(* lie on one meridian (lon is 0), for which the great-circle distance is  *)
(* the difference of the latitudes; the stops of the grid feeds differ in  *)
(* longitude as well.                                                      *)
(***************************************************************************)
EXTENDS Integers, Sequences, FiniteSets, TLC

(***************************************************************************)
(* types.hpp: constants                                                    *)
(***************************************************************************)
INF == 1000000000
AVG_BUS_SPEED_MPS == 833
WALK_SPEED_MPS == 140
METRO_SPEED_MPS == 1667
MICROBUS_SPEED_MPS == 1111
TRANSFER_PENALTY == 60000
STOP_DWELL_TIME == 30000
MAX_SPEED_MPS == 2500
MAX_WALK_DISTANCE == 1500

NONE == 0
METRO == 1
BUS == 2
MICROBUS == 4
WALK == 8
ANY == 7

\* metres of one degree of latitude (R_EARTH * PI / 180), and the divisor
\* of CELL_SIZE = MAX_WALK_DISTANCE / 111000.0 degrees
MetresPerDegree == 111195
CellDegreeDivisor == 111000

(***************************************************************************)
(* Helpers of the model                                                    *)
(***************************************************************************)
Abs(x) == IF x < 0 THEN -x ELSE x

\* a / b of the code for a distance a in metres and a speed b in cm/s: ms
DivSpeed(dist, speed) == (dist * 100000) \div speed

\* std::unordered_map as a function; m[k] = v
Put(m, k, v) == [x \in (DOMAIN m) \cup {k} |-> IF x = k THEN v ELSE m[x]]

EmptyMap == [x \in {} |-> 0]

\* a & b on the four mode bits
BitAnd(a, b) ==
  LET bit(x, k) == (x \div k) % 2
  IN  bit(a, 1) * bit(b, 1) + 2 * bit(a, 2) * bit(b, 2)
      + 4 * bit(a, 4) * bit(b, 4) + 8 * bit(a, 8) * bit(b, 8)

modeToString(mode) ==
  IF mode = METRO THEN "metro"
  ELSE IF mode = BUS THEN "bus"
  ELSE IF mode = MICROBUS THEN "microbus"
  ELSE IF mode = WALK THEN "walking"
  ELSE IF mode = ANY THEN "optimal"
  ELSE "unknown"

\* cos of a latitude, in thousandths: the angle in radians is lat / R_EARTH,
\* x below is that angle in thousandths, and the value is the series
\* 1 - x^2/2 + x^4/24 - x^6/720
R_EARTH == 6371000

CosPermille(lat) ==
  LET x == Abs(lat) \div (R_EARTH \div 1000)
      x2 == (x * x) \div 1000
  IN  1000 - x2 \div 2 + (x2 * x2) \div 24000
      - (((x2 * x2) \div 1000) * x2) \div 720000

\* floor of the square root of n, searched between lo and hi
RECURSIVE SqrtFloor(_, _, _)
SqrtFloor(n, lo, hi) ==
  IF lo >= hi THEN lo
  ELSE LET mid == (lo + hi + 1) \div 2
       IN  IF mid * mid <= n THEN SqrtFloor(n, mid, hi)
           ELSE SqrtFloor(n, lo, mid - 1)

\* the great-circle distance in metres.  On one meridian it is the
\* difference of the latitudes; for two points a few kilometres apart,
\* sin and atan2 of the small angles are the angles, and the formula is
\* R_EARTH * sqrt(dLat^2 + cos(lat1) * cos(lat2) * dLon^2)
haversine(lat1, lon1, lat2, lon2) ==
  IF lon1 = lon2 THEN Abs(lat2 - lat1)
  ELSE LET north == Abs(lat2 - lat1)
           east1 == (Abs(lon2 - lon1) * CosPermille(lat1)) \div 1000
           east2 == (Abs(lon2 - lon1) * CosPermille(lat2)) \div 1000
       IN  SqrtFloor(north * north + east1 * east2, 0, north + east1 + east2)

(***************************************************************************)
(* graph.cpp: the loader.  A graph is the record                           *)
(*   [nodes, stop_id_map, stop_name_map, route_modes, trip_routes,         *)
(*    spatial_grid_]                                                       *)
(* where nodes is a function on 0 .. N-1 (NodeID is the index).            *)
(***************************************************************************)
EmptyGraph ==
  [nodes |-> [i \in {} |-> 0], stop_id_map |-> EmptyMap,
   stop_name_map |-> EmptyMap, route_modes |-> EmptyMap,
   trip_routes |-> EmptyMap, spatial_grid_ |-> EmptyMap]

NumNodes(g) == Cardinality(DOMAIN g.nodes)

\* the agency -> mode rule of loadRoutes
AgencyMode(agency_id) ==
  IF agency_id = "M_CAI-METRO" THEN METRO
  ELSE IF agency_id = "MB_CAI_BUS" THEN MICROBUS
  ELSE BUS

RECURSIVE loadRoutes(_, _)
loadRoutes(g, rows) ==
  IF rows = <<>> THEN g
  ELSE LET r == Head(rows)
       IN  loadRoutes([g EXCEPT !.route_modes =
                         Put(@, r.route_id, AgencyMode(r.agency_id))],
                      Tail(rows))

RECURSIVE loadTrips(_, _)
loadTrips(g, rows) ==
  IF rows = <<>> THEN g
  ELSE LET t == Head(rows)
       IN  loadTrips([g EXCEPT !.trip_routes = Put(@, t.trip_id, t.route_id)],
                     Tail(rows))

RECURSIVE loadStopsLastWins(_, _)
loadStopsLastWins(g, rows) ==
  IF rows = <<>> THEN g
  ELSE LET s == Head(rows)
           n == IF s.stop_id \in DOMAIN g.stop_id_map
                THEN g.stop_id_map[s.stop_id] ELSE NumNodes(g)
           node == [id |-> n, stop_name |-> s.stop_name,
                    gtfs_stop_id |-> s.stop_id, lat |-> s.lat, lon |-> s.lon,
                    outgoing |-> <<>>]
       IN  loadStopsLastWins(
             [g EXCEPT
                !.nodes = [i \in (DOMAIN g.nodes) \cup {n} |->
                             IF i = n THEN node ELSE g.nodes[i]],
                !.stop_id_map = Put(@, s.stop_id, n),
                !.stop_name_map = Put(@, s.stop_name, n)],
             Tail(rows))

RECURSIVE loadStops(_, _)
loadStops(g, rows) ==
  IF rows = <<>> THEN g
  ELSE LET s == Head(rows)
           n == NumNodes(g)
           node == [id |-> n, stop_name |-> s.stop_name,
                    gtfs_stop_id |-> s.stop_id, lat |-> s.lat, lon |-> s.lon,
                    outgoing |-> <<>>]
       IN  IF s.stop_id \in DOMAIN g.stop_id_map
           THEN loadStops(g, Tail(rows))
           ELSE loadStops([g EXCEPT
                             !.nodes = [i \in 0 .. n |->
                                          IF i = n THEN node ELSE g.nodes[i]],
                             !.stop_id_map = Put(@, s.stop_id, n),
                             !.stop_name_map = Put(@, s.stop_name, n)],
                          Tail(rows))

\* nodes_[u].outgoing.push_back(e)
PushEdge(nodes, u, e) ==
  [nodes EXCEPT ![u].outgoing = Append(@, e)]

\* the comparator of the sort of loadStopTimes; the trip ids of the model
\* are "T1" and "T2", which compare as strings the way their ranks do
TripRank(trip_id) ==
  IF trip_id = "T1" THEN 1 ELSE IF trip_id = "T2" THEN 2 ELSE 3

EntryLess(a, b) ==
  IF a.trip_id # b.trip_id THEN TripRank(a.trip_id) < TripRank(b.trip_id)
  ELSE a.seq < b.seq

RECURSIVE InsertEntry(_, _)
InsertEntry(sorted, e) ==
  IF sorted = <<>> THEN <<e>>
  ELSE IF EntryLess(e, Head(sorted)) THEN <<e>> \o sorted
  ELSE <<Head(sorted)>> \o InsertEntry(Tail(sorted), e)

SortEntriesFileOrder(entries) == entries

RECURSIVE SortEntries(_)
SortEntries(entries) ==
  IF entries = <<>> THEN <<>>
  ELSE InsertEntry(SortEntries(SubSeq(entries, 1, Len(entries) - 1)),
                   entries[Len(entries)])

\* the mode of a trip as loadStopTimes determines it (default BUS)
TripEdgeMode(g, trip_id) ==
  IF trip_id \in DOMAIN g.trip_routes
     /\ g.trip_routes[trip_id] \in DOMAIN g.route_modes
  THEN g.route_modes[g.trip_routes[trip_id]]
  ELSE BUS

ModeSpeed(mode) ==
  IF mode = MICROBUS THEN MICROBUS_SPEED_MPS
  ELSE IF mode = METRO THEN METRO_SPEED_MPS
  ELSE AVG_BUS_SPEED_MPS

RECURSIVE StopTimeEdgesOneWay(_, _, _)
StopTimeEdgesOneWay(g, entries, i) ==
  IF i > Len(entries) THEN g
  ELSE
    LET prev == entries[i - 1]
        curr == entries[i]
    IN  IF prev.trip_id = curr.trip_id
        THEN
          LET u == g.stop_id_map[prev.stop_id]
              v == g.stop_id_map[curr.stop_id]
              mode == TripEdgeMode(g, prev.trip_id)
              dist == haversine(g.nodes[u].lat, g.nodes[u].lon,
                                g.nodes[v].lat, g.nodes[v].lon)
              timeWeight == DivSpeed(dist, ModeSpeed(mode)) + STOP_DWELL_TIME
              fwd == PushEdge(g.nodes, u,
                       [to |-> v, weight |-> timeWeight,
                        trip_id |-> prev.trip_id, mode |-> mode])
          IN  StopTimeEdgesOneWay([g EXCEPT !.nodes = fwd], entries, i + 1)
        ELSE StopTimeEdgesOneWay(g, entries, i + 1)

\* the edge loop of loadStopTimes over the sorted entries, from index i
RECURSIVE StopTimeEdges(_, _, _)
StopTimeEdges(g, entries, i) ==
  IF i > Len(entries) THEN g
  ELSE
    LET prev == entries[i - 1]
        curr == entries[i]
    IN  IF prev.trip_id = curr.trip_id
        THEN
          LET u == g.stop_id_map[prev.stop_id]
              v == g.stop_id_map[curr.stop_id]
              mode == TripEdgeMode(g, prev.trip_id)
              dist == haversine(g.nodes[u].lat, g.nodes[u].lon,
                                g.nodes[v].lat, g.nodes[v].lon)
              timeWeight == DivSpeed(dist, ModeSpeed(mode)) + STOP_DWELL_TIME
              fwd == PushEdge(g.nodes, u,
                       [to |-> v, weight |-> timeWeight,
                        trip_id |-> prev.trip_id, mode |-> mode])
              both == IF mode = MICROBUS
                      THEN PushEdge(fwd, v,
                             [to |-> u, weight |-> timeWeight,
                              trip_id |-> prev.trip_id, mode |-> mode])
                      ELSE fwd
          IN  StopTimeEdges([g EXCEPT !.nodes = both], entries, i + 1)
        ELSE StopTimeEdges(g, entries, i + 1)

loadStopTimes(g, rows) ==
  LET known == SelectSeq(rows, LAMBDA e : e.stop_id \in DOMAIN g.stop_id_map)
  IN  StopTimeEdges(g, SortEntries(known), 2)

\* floor(x / cellSize) for a coordinate in metres: the coordinate in
\* degrees is x / MetresPerDegree and cellSize is MAX_WALK_DISTANCE / 111000
\* degrees (111000 / 1500 is the integer 74)
CellIndex(x) ==
  (x * (CellDegreeDivisor \div MAX_WALK_DISTANCE)) \div MetresPerDegree

\* the code packs the pair into the long long cy * 1000000 + cx, which is
\* one-to-one on the cells of the Earth; the model keeps the pair <<cy, cx>>
getCellKey(lat, lon) == <<CellIndex(lat), CellIndex(lon)>>

\* the grid of generateTransferEdges: cell key -> the node ids of the cell
\* in insertion order (lines 346-348), nodes i, i + 1, ... added to grid
RECURSIVE BuildGrid(_, _, _)
BuildGrid(nodes, grid, i) ==
  IF i \notin DOMAIN nodes THEN grid
  ELSE LET key == getCellKey(nodes[i].lat, nodes[i].lon)
       IN  BuildGrid(nodes,
                     Put(grid, key,
                         IF key \in DOMAIN grid THEN Append(grid[key], i)
                         ELSE <<i>>),
                     i + 1)

\* grid.find(key): the vector of the cell, empty when the cell has no entry
GridCell(grid, key) == IF key \in DOMAIN grid THEN grid[key] ELSE <<>>

\* the node ids the 3x3 sweep around the cell of (lat, lon) visits, in the
\* order of the two for loops (dx outer, dy inner)
SweepOrder(grid, lat, lon) ==
  LET cy == CellIndex(lat)
      cx == CellIndex(lon)
      Cell(dx, dy) == GridCell(grid, <<cy + dy, cx + dx>>)
  IN  Cell(-1, -1) \o Cell(-1, 0) \o Cell(-1, 1)
      \o Cell(0, -1) \o Cell(0, 0) \o Cell(0, 1)
      \o Cell(1, -1) \o Cell(1, 0) \o Cell(1, 1)

RECURSIVE TransferCellBothOrders(_, _, _)
TransferCellBothOrders(nodes, i, js) ==
  IF js = <<>> THEN nodes
  ELSE
    LET j == Head(js)
        dist == haversine(nodes[i].lat, nodes[i].lon,
                          nodes[j].lat, nodes[j].lon)
        walkTime == DivSpeed(dist, WALK_SPEED_MPS)
    IN  IF dist <= MAX_WALK_DISTANCE /\ dist > 0
        THEN TransferCellBothOrders(
               PushEdge(PushEdge(nodes, i,
                          [to |-> j, weight |-> walkTime,
                           trip_id |-> "WALK", mode |-> WALK]),
                        j,
                        [to |-> i, weight |-> walkTime,
                         trip_id |-> "WALK", mode |-> WALK]),
               i, Tail(js))
        ELSE TransferCellBothOrders(nodes, i, Tail(js))

\* the innermost loop of generateTransferEdges: node i against the nodes js
RECURSIVE TransferCell(_, _, _)
TransferCell(nodes, i, js) ==
  IF js = <<>> THEN nodes
  ELSE
    LET j == Head(js)
        dist == haversine(nodes[i].lat, nodes[i].lon,
                          nodes[j].lat, nodes[j].lon)
        walkTime == DivSpeed(dist, WALK_SPEED_MPS)
    IN  IF i >= j THEN TransferCell(nodes, i, Tail(js))
        ELSE IF dist <= MAX_WALK_DISTANCE /\ dist > 0
        THEN TransferCell(
               PushEdge(PushEdge(nodes, i,
                          [to |-> j, weight |-> walkTime,
                           trip_id |-> "WALK", mode |-> WALK]),
                        j,
                        [to |-> i, weight |-> walkTime,
                         trip_id |-> "WALK", mode |-> WALK]),
               i, Tail(js))
        ELSE TransferCell(nodes, i, Tail(js))

RECURSIVE TransferNodes(_, _, _)
TransferNodes(nodes, grid, i) ==
  IF i \notin DOMAIN nodes THEN nodes
  ELSE TransferNodes(
         TransferCell(nodes, i, SweepOrder(grid, nodes[i].lat, nodes[i].lon)),
         grid, i + 1)

generateTransferEdges(g) ==
  [g EXCEPT !.nodes = TransferNodes(g.nodes, BuildGrid(g.nodes, EmptyMap, 0), 0)]

\* the member spatial_grid_, filled from the stops when the graph is built
buildSpatialGrid(g) ==
  [g EXCEPT !.spatial_grid_ = BuildGrid(g.nodes, EmptyMap, 0)]

\* loadGTFS on a feed [routes, trips, stops, stop_times] found in the .csv
\* files (the .txt files are read only when the .csv files gave no stop)
loadGTFS(g, feed) ==
  buildSpatialGrid(
    generateTransferEdges(
      loadStopTimes(
        loadStops(loadTrips(loadRoutes(g, feed.routes), feed.trips),
                  feed.stops),
        feed.stop_times)))

getTripMode(g, trip_id) ==
  IF trip_id = "WALK" THEN "walking"
  ELSE IF trip_id \in DOMAIN g.trip_routes
          /\ g.trip_routes[trip_id] \in DOMAIN g.route_modes
  THEN modeToString(g.route_modes[g.trip_routes[trip_id]])
  ELSE "unknown"

(***************************************************************************)
(* Graph queries used by the search                                        *)
(***************************************************************************)
\* the lambda matchesMode of findNearestNode(lat, lon, modeMask): the
\* external stop id starts with the prefix of a mode of the mask.  A stop
\* id is [prefix, num]; "M_", "B1_" and "MB_" are no prefixes of one another
matchesMode(modeMask, stop_id) ==
  \/ BitAnd(modeMask, METRO) # 0 /\ stop_id.prefix = "M_"
  \/ BitAnd(modeMask, BUS) # 0 /\ stop_id.prefix = "B1_"
  \/ BitAnd(modeMask, MICROBUS) # 0 /\ stop_id.prefix = "MB_"

\* the loop of findNearestNode over the nodes from index i: the pair
\* <<bestNode, minDist>> after it; every node is a candidate when modeMask
\* is NONE (the overload without mask), else the nodes matchesMode accepts
RECURSIVE NearestLoop(_, _, _, _, _, _)
NearestLoop(g, lat, lon, modeMask, i, best) ==
  IF i \notin DOMAIN g.nodes THEN best
  ELSE
    LET node == g.nodes[i]
        dist == haversine(lat, lon, node.lat, node.lon)
    IN  IF modeMask # NONE /\ ~matchesMode(modeMask, node.gtfs_stop_id)
        THEN NearestLoop(g, lat, lon, modeMask, i + 1, best)
        ELSE IF dist < best[2]
        THEN NearestLoop(g, lat, lon, modeMask, i + 1, <<node.id, dist>>)
        ELSE NearestLoop(g, lat, lon, modeMask, i + 1, best)

findNearestNode(g, lat, lon) ==
  NearestLoop(g, lat, lon, NONE, 0, <<-1, INF>>)[1]

NearestFallbackDistance == 5000

findNearestNodeNoFallback(g, lat, lon, modeMask) ==
  NearestLoop(g, lat, lon, modeMask, 0, <<-1, INF>>)[1]

\* findNearestNode(lat, lon, modeMask)
findNearestNodeMode(g, lat, lon, modeMask) ==
  LET best == NearestLoop(g, lat, lon, modeMask, 0, <<-1, INF>>)
  IN  IF best[1] = -1 \/ best[2] > NearestFallbackDistance
      THEN findNearestNode(g, lat, lon)
      ELSE best[1]

\* the stops of one grid cell within the radius, as <<NodeID, distance>>
RECURSIVE RadiusCell(_, _, _, _, _)
RadiusCell(g, lat, lon, radius, js) ==
  IF js = <<>> THEN <<>>
  ELSE
    LET j == Head(js)
        dist == haversine(lat, lon, g.nodes[j].lat, g.nodes[j].lon)
    IN  (IF dist <= radius THEN << <<j, dist>> >> ELSE <<>>)
        \o RadiusCell(g, lat, lon, radius, Tail(js))

\* radius_query(lat, lon, r): the cell of the point, its 3x3 neighbourhood,
\* filtered by exact distance
getNodesWithinRadius(g, lat, lon, radius) ==
  RadiusCell(g, lat, lon, radius, SweepOrder(g.spatial_grid_, lat, lon))

\* radius_query(lat, lon, r, mode_mask): as above, filtered by mode
getNodesWithinRadiusMode(g, lat, lon, radius, modeMask) ==
  SelectSeq(getNodesWithinRadius(g, lat, lon, radius),
            LAMBDA p : matchesMode(modeMask, g.nodes[p[1]].gtfs_stop_id))

(***************************************************************************)
(* pathfinder.cpp: Pathfinder::FindPath.  A query is the record            *)
(* [sLat, sLon, dLat, dLon]; the state of one search is the record         *)
(* [info, pq, best_total, best_end_node].                                  *)
(***************************************************************************)
candidateRadii == <<MAX_WALK_DISTANCE, 2500, 4000, 6000>>

\* the for loop over candidateRadii from index i: the sets it leaves in
\* startNodes and endNodes, and the radii it queried
RECURSIVE RadiusLoopEither(_, _, _, _)
RadiusLoopEither(g, q, modeMask, i) ==
  LET radius == candidateRadii[i]
      sn == getNodesWithinRadiusMode(g, q.sLat, q.sLon, radius, modeMask)
      en == getNodesWithinRadiusMode(g, q.dLat, q.dLon, radius, modeMask)
  IN  IF (sn # <<>> \/ en # <<>>) \/ i = Len(candidateRadii)
      THEN [startNodes |-> sn, endNodes |-> en, radii |-> <<radius>>]
      ELSE LET rest == RadiusLoopEither(g, q, modeMask, i + 1)
           IN  [rest EXCEPT !.radii = <<radius>> \o @]

RECURSIVE RadiusLoop(_, _, _, _)
RadiusLoop(g, q, modeMask, i) ==
  LET radius == candidateRadii[i]
      sn == getNodesWithinRadiusMode(g, q.sLat, q.sLon, radius, modeMask)
      en == getNodesWithinRadiusMode(g, q.dLat, q.dLon, radius, modeMask)
  IN  IF (sn # <<>> /\ en # <<>>) \/ i = Len(candidateRadii)
      THEN [startNodes |-> sn, endNodes |-> en, radii |-> <<radius>>]
      ELSE LET rest == RadiusLoop(g, q, modeMask, i + 1)
           IN  [rest EXCEPT !.radii = <<radius>> \o @]

DirectDist(q) == haversine(q.sLat, q.sLon, q.dLat, q.dLon)

CanDirectWalkPositive(q) ==
  DirectDist(q) > 0 /\ DirectDist(q) <= MAX_WALK_DISTANCE * 2

CanDirectWalk(q) == DirectDist(q) <= MAX_WALK_DISTANCE * 2

DirectSegment(q) ==
  [startLon |-> q.sLon, startLat |-> q.sLat, startName |-> "Origin",
   endLon |-> q.dLon, endLat |-> q.dLat, endName |-> "Destination",
   method |-> "walking", numStops |-> 0]

EarlyResultNoWalk(q, typeLabel) ==
  [type |-> typeLabel, totalDuration |-> INF, segments |-> <<>>]

EarlyResultKeepsSegment(q, typeLabel) ==
  [type |-> typeLabel,
   totalDuration |-> IF CanDirectWalk(q)
                     THEN DivSpeed(DirectDist(q), WALK_SPEED_MPS) ELSE INF,
   segments |-> <<DirectSegment(q)>>]

\* the return of lines 50-57, taken when a candidate set is empty
EarlyResult(q, typeLabel) ==
  IF CanDirectWalk(q)
  THEN [type |-> typeLabel,
        totalDuration |-> DivSpeed(DirectDist(q), WALK_SPEED_MPS),
        segments |-> <<DirectSegment(q)>>]
  ELSE [type |-> typeLabel, totalDuration |-> INF, segments |-> <<>>]

\* end_walk_dist: -1 for the stops that are no alighting candidate
RECURSIVE EndWalkDist(_, _)
EndWalkDist(g, ens) ==
  IF ens = <<>> THEN [i \in DOMAIN g.nodes |-> -1]
  ELSE LET rest == EndWalkDist(g, SubSeq(ens, 1, Len(ens) - 1))
           en == ens[Len(ens)]
       IN  [rest EXCEPT ![en[1]] = en[2]]

heuristicWalkSpeed(g, q, u) ==
  DivSpeed(haversine(g.nodes[u].lat, g.nodes[u].lon, q.dLat, q.dLon),
           WALK_SPEED_MPS)

heuristic(g, q, u) ==
  DivSpeed(haversine(g.nodes[u].lat, g.nodes[u].lon, q.dLat, q.dLon),
           MAX_SPEED_MPS)

PathInfo == [g_score |-> INF, parent |-> -1, trip_id |-> ""]

RECURSIVE SeedStartNoTrip(_, _, _, _)
SeedStartNoTrip(g, q, st, sns) ==
  IF sns = <<>> THEN st
  ELSE
    LET u == Head(sns)[1]
        walkDist == Head(sns)[2]
        cost == DivSpeed(walkDist, WALK_SPEED_MPS)
    IN  SeedStartNoTrip(g, q,
          [st EXCEPT
             !.info[u] = [g_score |-> cost, parent |-> -1, trip_id |-> ""],
             !.pq = @ \cup {[u |-> u, g_score |-> cost,
                             f_score |-> cost + heuristic(g, q, u),
                             arrival_trip_id |-> ""]}],
          Tail(sns))

\* the seeding loop over startNodes
RECURSIVE SeedStart(_, _, _, _)
SeedStart(g, q, st, sns) ==
  IF sns = <<>> THEN st
  ELSE
    LET u == Head(sns)[1]
        walkDist == Head(sns)[2]
        cost == DivSpeed(walkDist, WALK_SPEED_MPS)
    IN  SeedStart(g, q,
          [st EXCEPT
             !.info[u] = [g_score |-> cost, parent |-> -1, trip_id |-> "WALK"],
             !.pq = @ \cup {[u |-> u, g_score |-> cost,
                             f_score |-> cost + heuristic(g, q, u),
                             arrival_trip_id |-> "WALK"]}],
          Tail(sns))

InitialSearchNoDirect(g, q, sns) ==
  SeedStart(g, q, [info |-> [i \in DOMAIN g.nodes |-> PathInfo], pq |-> {},
                   best_total |-> INF, best_end_node |-> -1], sns)

\* the state of the search when the while loop is entered (lines 69-90)
InitialSearch(g, q, sns) ==
  LET st0 == [info |-> [i \in DOMAIN g.nodes |-> PathInfo], pq |-> {},
              best_total |-> INF, best_end_node |-> -1]
      st1 == SeedStart(g, q, st0, sns)
  IN  IF CanDirectWalk(q)
      THEN [st1 EXCEPT
              !.best_total = DivSpeed(DirectDist(q), WALK_SPEED_MPS),
              !.best_end_node = -2]
      ELSE st1

EdgeCostNoPenalty(top, edge) == edge.weight

EdgeCostAfterWalk(top, edge) ==
  IF top.arrival_trip_id # "" /\ top.arrival_trip_id # edge.trip_id
     /\ edge.trip_id # "WALK"
  THEN edge.weight + TRANSFER_PENALTY
  ELSE edge.weight

\* the cost of an edge for a popped entry (lines 115-119)
EdgeCost(top, edge) ==
  IF top.arrival_trip_id # "" /\ top.arrival_trip_id # edge.trip_id
     /\ edge.trip_id # "WALK" /\ top.arrival_trip_id # "WALK"
  THEN edge.weight + TRANSFER_PENALTY
  ELSE edge.weight

RelaxEdgeAnyMode(g, q, modeMask, st, top, edge) ==
  LET newG == top.g_score + EdgeCost(top, edge)
  IN  IF newG < st.info[edge.to].g_score /\ newG < st.best_total
      THEN [st EXCEPT
              !.info[edge.to] = [g_score |-> newG, parent |-> top.u,
                                 trip_id |-> edge.trip_id],
              !.pq = @ \cup {[u |-> edge.to, g_score |-> newG,
                              f_score |-> newG + heuristic(g, q, edge.to),
                              arrival_trip_id |-> edge.trip_id]}]
      ELSE st

RelaxEdgeNotStrict(g, q, modeMask, st, top, edge) ==
  IF BitAnd(edge.mode, modeMask) = 0 THEN st
  ELSE
    LET newG == top.g_score + EdgeCost(top, edge)
    IN  IF newG <= st.info[edge.to].g_score /\ newG < st.best_total
        THEN [st EXCEPT
                !.info[edge.to] = [g_score |-> newG, parent |-> top.u,
                                   trip_id |-> edge.trip_id],
                !.pq = @ \cup {[u |-> edge.to, g_score |-> newG,
                                f_score |-> newG + heuristic(g, q, edge.to),
                                arrival_trip_id |-> edge.trip_id]}]
        ELSE st

\* the body of the for loop over the outgoing edges, for one edge
RelaxEdge(g, q, modeMask, st, top, edge) ==
  IF BitAnd(edge.mode, modeMask) = 0 THEN st
  ELSE
    LET newG == top.g_score + EdgeCost(top, edge)
    IN  IF newG < st.info[edge.to].g_score /\ newG < st.best_total
        THEN [st EXCEPT
                !.info[edge.to] = [g_score |-> newG, parent |-> top.u,
                                   trip_id |-> edge.trip_id],
                !.pq = @ \cup {[u |-> edge.to, g_score |-> newG,
                                f_score |-> newG + heuristic(g, q, edge.to),
                                arrival_trip_id |-> edge.trip_id]}]
        ELSE st

RECURSIVE RelaxEdges(_, _, _, _, _, _)
RelaxEdges(g, q, modeMask, st, top, edges) ==
  IF edges = <<>> THEN st
  ELSE RelaxEdges(g, q, modeMask,
                  RelaxEdge(g, q, modeMask, st, top, Head(edges)),
                  top, Tail(edges))

EndCheckNoAlightWalk(ewd, st, top) ==
  IF ewd[top.u] >= 0
  THEN LET total_cost == top.g_score
       IN  IF total_cost < st.best_total
           THEN [st EXCEPT !.best_total = total_cost,
                           !.best_end_node = top.u]
           ELSE st
  ELSE st

\* the end-node test of a popped entry (lines 102-109)
EndCheck(ewd, st, top) ==
  IF ewd[top.u] >= 0
  THEN LET total_cost == top.g_score + DivSpeed(ewd[top.u], WALK_SPEED_MPS)
       IN  IF total_cost < st.best_total
           THEN [st EXCEPT !.best_total = total_cost,
                           !.best_end_node = top.u]
           ELSE st
  ELSE st

PopStepPruneHalf(g, q, modeMask, ewd, st, top) ==
  LET popped == [st EXCEPT !.pq = @ \ {top}]
  IN  IF top.g_score > st.info[top.u].g_score THEN popped
      ELSE IF 2 * top.g_score >= st.best_total THEN popped
      ELSE RelaxEdges(g, q, modeMask, EndCheck(ewd, popped, top), top,
                      g.nodes[top.u].outgoing)

\* one iteration of the while loop, for the entry top that pq.top() gave
PopStep(g, q, modeMask, ewd, st, top) ==
  LET popped == [st EXCEPT !.pq = @ \ {top}]
  IN  IF top.g_score > st.info[top.u].g_score THEN popped
      ELSE IF top.g_score >= st.best_total THEN popped
      ELSE RelaxEdges(g, q, modeMask, EndCheck(ewd, popped, top), top,
                      g.nodes[top.u].outgoing)

\* the entries pq.top() may give: State::operator> orders by f_score alone,
\* and the order among entries of equal f_score is the heap's
TopEntries(pq) == {e \in pq : \A o \in pq : e.f_score <= o.f_score}

\* the while loop of lines 148-151 followed by the reverse: the path from
\* the node without parent to curr
RECURSIVE ParentPath(_, _)
ParentPath(info, curr) ==
  IF curr = -1 THEN <<>>
  ELSE Append(ParentPath(info, info[curr].parent), curr)

RECURSIVE TransitSegmentsSkip(_, _, _, _, _)
TransitSegmentsSkip(g, info, path, startIdx, i) ==
  IF i > Len(path) THEN <<>>
  ELSE
    LET currentTrip == info[path[i]].trip_id
        isLast == (i = Len(path))
        nextTripDifferent ==
          IF isLast THEN FALSE ELSE info[path[i + 1]].trip_id # currentTrip
    IN  IF isLast \/ nextTripDifferent
        THEN
          LET u == path[startIdx]
              v == path[i]
              seg == [startLon |-> g.nodes[u].lon, startLat |-> g.nodes[u].lat,
                      startName |-> g.nodes[u].stop_name,
                      endLon |-> g.nodes[v].lon, endLat |-> g.nodes[v].lat,
                      endName |-> g.nodes[v].stop_name,
                      method |-> getTripMode(g, currentTrip),
                      numStops |-> i - startIdx]
          IN  <<seg>> \o TransitSegmentsSkip(g, info, path, i + 1, i + 1)
        ELSE TransitSegmentsSkip(g, info, path, startIdx, i + 1)

RECURSIVE TransitSegmentsPerEdge(_, _, _, _, _)
TransitSegmentsPerEdge(g, info, path, startIdx, i) ==
  IF i > Len(path) THEN <<>>
  ELSE
    LET u == path[i - 1]
        v == path[i]
        seg == [startLon |-> g.nodes[u].lon, startLat |-> g.nodes[u].lat,
                startName |-> g.nodes[u].stop_name,
                endLon |-> g.nodes[v].lon, endLat |-> g.nodes[v].lat,
                endName |-> g.nodes[v].stop_name,
                method |-> getTripMode(g, info[path[i]].trip_id),
                numStops |-> 1]
    IN  <<seg>> \o TransitSegmentsPerEdge(g, info, path, i, i + 1)

\* the segment loop of lines 158-182 from index i (the model's sequences
\* start at 1: path[i] here is path[i - 1] of the code)
RECURSIVE TransitSegments(_, _, _, _, _)
TransitSegments(g, info, path, startIdx, i) ==
  IF i > Len(path) THEN <<>>
  ELSE
    LET currentTrip == info[path[i]].trip_id
        isLast == (i = Len(path))
        nextTripDifferent ==
          IF isLast THEN FALSE ELSE info[path[i + 1]].trip_id # currentTrip
    IN  IF isLast \/ nextTripDifferent
        THEN
          LET u == path[startIdx]
              v == path[i]
              seg == [startLon |-> g.nodes[u].lon, startLat |-> g.nodes[u].lat,
                      startName |-> g.nodes[u].stop_name,
                      endLon |-> g.nodes[v].lon, endLat |-> g.nodes[v].lat,
                      endName |-> g.nodes[v].stop_name,
                      method |-> getTripMode(g, currentTrip),
                      numStops |-> i - startIdx]
          IN  <<seg>> \o TransitSegments(g, info, path, i, i + 1)
        ELSE TransitSegments(g, info, path, startIdx, i + 1)

\* lines 133-188: the result built from the state the loop ended in
BuildResult(g, q, typeLabel, st) ==
  IF st.best_total = INF
  THEN [type |-> typeLabel, totalDuration |-> INF, segments |-> <<>>]
  ELSE IF st.best_end_node = -2
  THEN [type |-> typeLabel, totalDuration |-> st.best_total,
        segments |-> <<DirectSegment(q)>>]
  ELSE
    LET path == ParentPath(st.info, st.best_end_node)
        e == st.best_end_node
        first == [startLon |-> q.sLon, startLat |-> q.sLat,
                  startName |-> "Origin",
                  endLon |-> g.nodes[path[1]].lon,
                  endLat |-> g.nodes[path[1]].lat,
                  endName |-> g.nodes[path[1]].stop_name,
                  method |-> "walking", numStops |-> 0]
        last == [startLon |-> g.nodes[e].lon, startLat |-> g.nodes[e].lat,
                 startName |-> g.nodes[e].stop_name,
                 endLon |-> q.dLon, endLat |-> q.dLat,
                 endName |-> "Destination",
                 method |-> "walking", numStops |-> 0]
    IN  [type |-> typeLabel, totalDuration |-> st.best_total,
         segments |-> <<first>>
                      \o (IF Len(path) > 1
                          THEN TransitSegments(g, st.info, path, 1, 2)
                          ELSE <<>>)
                      \o <<last>>]

\* the four searches of FindAllRoutes, in the order of the calls
RouteCalls ==
  << [mask |-> BUS + WALK, label |-> "bus_only"],
     [mask |-> METRO + WALK, label |-> "metro_only"],
     [mask |-> MICROBUS + WALK, label |-> "microbus_only"],
     [mask |-> ANY + WALK, label |-> "optimal"] >>

(***************************************************************************)
(* The feeds and the queries of the model                                  *)
(***************************************************************************)
MaxStops == 3
MaxTrips == 2

\* distances in metres between one stop of a feed and the next
Gaps == {700, 2000}
Prefixes == {"M_", "B1_", "MB_"}
StopNames == <<"A", "B", "C", "D", "E", "F">>
TripIds == <<"T1", "T2", "T3">>
RouteIds == <<"R1", "R2", "R3">>
TripKinds == {"metro", "bus", "microbus", "unmapped"}
Origins == {0}
Dests == {100, 1400, 4000}

RECURSIVE SumTo(_, _)
SumTo(gs, n) == IF n = 0 THEN 0 ELSE gs[n] + SumTo(gs, n - 1)

\* the latitudes of n stops: the first at 0, the others a gap further each
Layouts(n) ==
  IF n = 0 THEN {<<>>}
  ELSE {[i \in 1 .. n |-> SumTo(gs, i - 1)] : gs \in [1 .. (n - 1) -> Gaps]}

\* the prefixes of the stop ids: one for the first stop, one for the others
PrefixPatterns(n) ==
  {[i \in 1 .. n |-> IF i = 1 THEN p1 ELSE p2] : p1 \in Prefixes, p2 \in Prefixes}

RECURSIVE SeqOfSet(_)
SeqOfSet(S) ==
  IF S = {} THEN <<>>
  ELSE LET m == CHOOSE x \in S : \A y \in S : x <= y
       IN  <<m>> \o SeqOfSet(S \ {m})

\* the stop sequences of a trip: at least two of the n stops, northwards
TripStops(n) == {SeqOfSet(S) : S \in {T \in SUBSET (1 .. n) : Cardinality(T) >= 2}}

\* the trips of a feed: trip k is [kind, stops]; the trips after the first
\* are bus or metro trips
TripPlans(n) ==
  UNION {{p \in [1 .. t -> [kind : TripKinds, stops : TripStops(n)]] :
            \A k \in 2 .. t : p[k].kind \in {"bus", "metro"}} : t \in 0 .. MaxTrips}

AgencyOf(kind) ==
  IF kind = "metro" THEN "M_CAI-METRO"
  ELSE IF kind = "microbus" THEN "MB_CAI_BUS"
  ELSE "B1_CAI_BUS"

StopId(prefixes, i) == [prefix |-> prefixes[i], num |-> i]

RECURSIVE StopTimeRows(_, _, _)
StopTimeRows(prefixes, plan, k) ==
  IF k > Len(plan) THEN <<>>
  ELSE [j \in 1 .. Len(plan[k].stops) |->
          [trip_id |-> TripIds[k],
           stop_id |-> StopId(prefixes, plan[k].stops[j]), seq |-> j]]
       \o StopTimeRows(prefixes, plan, k + 1)

\* the rows of the four files of a feed; a trip of kind "unmapped" has no
\* row in the trips file
FeedOf(layout, prefixes, plan) ==
  [routes |-> [k \in 1 .. Len(plan) |->
                 [route_id |-> RouteIds[k], agency_id |-> AgencyOf(plan[k].kind)]],
   trips |-> SelectSeq([k \in 1 .. Len(plan) |->
                          [route_id |-> RouteIds[k], service_id |-> "S",
                           trip_id |-> TripIds[k], kind |-> plan[k].kind]],
                       LAMBDA t : t.kind # "unmapped"),
   stops |-> [i \in 1 .. Len(layout) |->
                [stop_id |-> StopId(prefixes, i), stop_name |-> StopNames[i],
                 lat |-> layout[i], lon |-> 0]],
   stop_times |-> StopTimeRows(prefixes, plan, 1)]

LineFeeds ==
  UNION {{FeedOf(l, p, t) : l \in Layouts(n), p \in PrefixPatterns(n),
                            t \in TripPlans(n)} : n \in 0 .. MaxStops}

\* feeds with two stops at the same place: a first trip from the first of
\* them and a second trip from the second, both through the third stop
TwinLayout == <<0, 0, 700, 1400>>

TwinPlans ==
  {<<[kind |-> k1, stops |-> s1], [kind |-> k2, stops |-> s2]>> :
     k1 \in {"bus", "metro"}, k2 \in {"bus", "metro"},
     s1 \in {<<1, 3>>, <<1, 3, 4>>}, s2 \in {<<2, 3>>, <<2, 3, 4>>}}

TwinFeeds ==
  {FeedOf(TwinLayout, [i \in 1 .. 4 |-> p], t) : p \in {"B1_", "M_"}, t \in TwinPlans}

Feeds == LineFeeds \cup TwinFeeds

(***************************************************************************)
(* The state machine: a Graph is constructed empty and loaded once;        *)
(* queries are answered by FindAllRoutes, which calls FindPath four times. *)
(***************************************************************************)
VARIABLES
  graph,          \* the Graph
  loaded,         \* loadGTFS has run
  pc,             \* "idle", "call", "loop", "ret", "done"
  query,          \* sLat, sLon, dLat, dLon of the request
  results,        \* the vector results of FindAllRoutes
  callIdx,        \* the FindPath call of FindAllRoutes in progress
  modeMask, typeLabel,
  startNodes, endNodes,
  queried,        \* history: the radii getNodesWithinRadius was called with
  end_walk_dist,
  info, pq, best_total, best_end_node,
  pops,           \* history: the iterations of the while loop of this call
  result,         \* the RouteResult FindPath returns
  other,          \* the locals of a FindPath call of a second thread
  nearest,        \* the last findNearestNode calls and what they returned
  stop_times      \* history: the rows of the stop times file, in file order

vars == <<graph, loaded, pc, query, results, callIdx, modeMask, typeLabel,
          startNodes, endNodes, queried, end_walk_dist, info, pq, best_total,
          best_end_node, pops, result, other, nearest, stop_times>>

searchVars == <<info, pq, best_total, best_end_node>>

NoQuery == [sLat |-> 0, sLon |-> 0, dLat |-> 0, dLon |-> 0]
NoResult == [type |-> "", totalDuration |-> INF, segments |-> <<>>]

\* no call of a second thread, and no findNearestNode call yet
NoCall == [pc |-> "idle"]
NoNearest == <<>>

\* the locals of FindPath outside a call
LocalsIdle ==
  /\ modeMask = NONE /\ typeLabel = ""
  /\ startNodes = <<>> /\ endNodes = <<>> /\ queried = <<>>
  /\ end_walk_dist = <<>>
  /\ info = <<>> /\ pq = {} /\ best_total = INF /\ best_end_node = -1
  /\ pops = 0 /\ result = NoResult

Init ==
  /\ graph = EmptyGraph
  /\ loaded = FALSE
  /\ pc = "idle"
  /\ query = NoQuery
  /\ results = <<>>
  /\ callIdx = 0
  /\ LocalsIdle
  /\ other = NoCall
  /\ nearest = NoNearest
  /\ stop_times = <<>>

\* main.cpp: graph.loadGTFS(gtfsPath)
LoadGTFS ==
  /\ pc = "idle" /\ ~loaded
  /\ \E feed \in Feeds : graph' = loadGTFS(graph, feed)
  /\ loaded' = TRUE
  /\ UNCHANGED <<pc, query, results, callIdx, modeMask, typeLabel, startNodes,
                 endNodes, queried, end_walk_dist, info, pq, best_total,
                 best_end_node, pops, result>>
  /\ UNCHANGED <<other, nearest>>
  /\ UNCHANGED stop_times

\* Pathfinder::FindAllRoutes is entered
FindAllRoutes ==
  /\ pc = "idle"
  /\ \E s \in Origins, d \in Dests :
       query' = [sLat |-> s, sLon |-> 0, dLat |-> d, dLon |-> 0]
  /\ results' = <<>>
  /\ callIdx' = 1
  /\ pc' = "call"
  /\ UNCHANGED <<graph, loaded, modeMask, typeLabel, startNodes, endNodes,
                 queried, end_walk_dist, info, pq, best_total, best_end_node,
                 pops, result>>
  /\ UNCHANGED <<other, nearest>>
  /\ UNCHANGED stop_times

\* FindPath from its entry to the while loop, or to the return of line 56
FindPathEnter ==
  /\ pc = "call"
  /\ LET call == RouteCalls[callIdx]
         rl == RadiusLoop(graph, query, call.mask, 1)
         st == InitialSearch(graph, query, rl.startNodes)
     IN  /\ modeMask' = call.mask
         /\ typeLabel' = call.label
         /\ startNodes' = rl.startNodes
         /\ endNodes' = rl.endNodes
         /\ queried' = rl.radii
         /\ pops' = 0
         /\ IF rl.startNodes = <<>> \/ rl.endNodes = <<>>
            THEN /\ result' = EarlyResult(query, call.label)
                 /\ end_walk_dist' = <<>>
                 /\ info' = <<>> /\ pq' = {}
                 /\ best_total' = INF /\ best_end_node' = -1
                 /\ pc' = "ret"
            ELSE /\ result' = NoResult
                 /\ end_walk_dist' = EndWalkDist(graph, rl.endNodes)
                 /\ info' = st.info /\ pq' = st.pq
                 /\ best_total' = st.best_total
                 /\ best_end_node' = st.best_end_node
                 /\ pc' = "loop"
  /\ UNCHANGED <<graph, loaded, query, results, callIdx>>
  /\ UNCHANGED <<other, nearest>>
  /\ UNCHANGED stop_times

\* one iteration of the while loop
FindPathPop ==
  /\ pc = "loop" /\ pq # {}
  /\ \E top \in TopEntries(pq) :
       LET st == PopStep(graph, query, modeMask, end_walk_dist,
                         [info |-> info, pq |-> pq, best_total |-> best_total,
                          best_end_node |-> best_end_node], top)
       IN  /\ info' = st.info /\ pq' = st.pq
           /\ best_total' = st.best_total
           /\ best_end_node' = st.best_end_node
  /\ pops' = pops + 1
  /\ UNCHANGED <<graph, loaded, pc, query, results, callIdx, modeMask,
                 typeLabel, startNodes, endNodes, queried, end_walk_dist,
                 result>>
  /\ UNCHANGED <<other, nearest>>
  /\ UNCHANGED stop_times

\* the queue is empty: lines 133-188
FindPathExit ==
  /\ pc = "loop" /\ pq = {}
  /\ result' = BuildResult(graph, query, typeLabel,
                           [info |-> info, pq |-> pq,
                            best_total |-> best_total,
                            best_end_node |-> best_end_node])
  /\ pc' = "ret"
  /\ UNCHANGED <<graph, loaded, query, results, callIdx, modeMask, typeLabel,
                 startNodes, endNodes, queried, end_walk_dist, info, pq,
                 best_total, best_end_node, pops>>
  /\ UNCHANGED <<other, nearest>>
  /\ UNCHANGED stop_times

\* results.push_back(FindPath(...)), and the next call or the return
FindPathReturn ==
  /\ pc = "ret"
  /\ results' = Append(results, result)
  /\ IF callIdx = Len(RouteCalls)
     THEN pc' = "done" /\ callIdx' = callIdx
     ELSE pc' = "call" /\ callIdx' = callIdx + 1
  /\ UNCHANGED <<graph, loaded, query, modeMask, typeLabel, startNodes,
                 endNodes, queried, end_walk_dist, info, pq, best_total,
                 best_end_node, pops, result>>
  /\ UNCHANGED <<other, nearest>>
  /\ UNCHANGED stop_times

\* GetRoute has its results; the server waits for the next request
GetRouteReply ==
  /\ pc = "done"
  /\ pc' = "idle"
  /\ query' = NoQuery
  /\ results' = <<>>
  /\ callIdx' = 0
  /\ modeMask' = NONE /\ typeLabel' = ""
  /\ startNodes' = <<>> /\ endNodes' = <<>> /\ queried' = <<>>
  /\ end_walk_dist' = <<>>
  /\ info' = <<>> /\ pq' = {} /\ best_total' = INF /\ best_end_node' = -1
  /\ pops' = 0 /\ result' = NoResult
  /\ UNCHANGED <<graph, loaded>>
  /\ UNCHANGED <<other, nearest>>
  /\ UNCHANGED stop_times

Next ==
  \/ LoadGTFS
  \/ FindAllRoutes
  \/ FindPathEnter
  \/ FindPathPop
  \/ FindPathExit
  \/ FindPathReturn
  \/ GetRouteReply

Spec == Init /\ [][Next]_vars

\* a call of FindPath that has reached its while loop keeps running: the
\* thread of the request is scheduled until the call returns
FairSpec ==
  /\ Spec
  /\ WF_vars(FindPathPop)
  /\ WF_vars(FindPathExit)

(***************************************************************************)
(* The same server on small feeds, asked the queries at the edges of the   *)
(* input domain: origin = destination, and coordinates beyond the poles.   *)
(***************************************************************************)
MaxEdgeStops == 2

EdgeFeeds ==
  TwinFeeds \cup
  UNION {{FeedOf(l, p, t) : l \in Layouts(n), p \in PrefixPatterns(n),
                            t \in TripPlans(n)} : n \in 0 .. MaxEdgeStops}

\* the latitude of the pole, in metres along the meridian
MaxLatitude == 90 * MetresPerDegree

OutOfRange(lat) == lat > MaxLatitude \/ lat < -MaxLatitude

\* <<origin, destination>>
EdgeQueries ==
  {<<0, 0>>, <<300, 300>>, <<700, 700>>,
   <<MaxLatitude + 50, MaxLatitude + 150>>,
   <<MaxLatitude + 50, 700>>, <<0, -(MaxLatitude + 50)>>}

LoadEdgeGTFS ==
  /\ pc = "idle" /\ ~loaded
  /\ \E feed \in EdgeFeeds : graph' = loadGTFS(graph, feed)
  /\ loaded' = TRUE
  /\ UNCHANGED <<pc, query, results, callIdx, modeMask, typeLabel, startNodes,
                 endNodes, queried, end_walk_dist, info, pq, best_total,
                 best_end_node, pops, result, other, nearest>>
  /\ UNCHANGED stop_times

FindAllRoutesEdge ==
  /\ pc = "idle"
  /\ \E sd \in EdgeQueries :
       query' = [sLat |-> sd[1], sLon |-> 0, dLat |-> sd[2], dLon |-> 0]
  /\ results' = <<>>
  /\ callIdx' = 1
  /\ pc' = "call"
  /\ UNCHANGED <<graph, loaded, modeMask, typeLabel, startNodes, endNodes,
                 queried, end_walk_dist, info, pq, best_total, best_end_node,
                 pops, result, other, nearest>>
  /\ UNCHANGED stop_times

NextEdge ==
  \/ LoadEdgeGTFS
  \/ FindAllRoutesEdge
  \/ FindPathEnter
  \/ FindPathPop
  \/ FindPathExit
  \/ FindPathReturn
  \/ GetRouteReply

SpecEdge == Init /\ [][NextEdge]_vars

(***************************************************************************)
(* Two requests at once: the gRPC server runs GetRoute on several threads  *)
(* against the one Graph of main.cpp.  The first thread runs FindAllRoutes *)
(* with the locals above; other holds the locals of a FindPath call of a   *)
(* second thread.  Every step reads the graph and writes the locals of its *)
(* own call only: FindPath takes const Graph & and keeps no static data.   *)
(***************************************************************************)
ConcQueries == {<<0, 100>>, <<0, 1400>>}

LoadConcGTFS ==
  /\ pc = "idle" /\ ~loaded /\ other = NoCall
  /\ \E feed \in TwinFeeds : graph' = loadGTFS(graph, feed)
  /\ loaded' = TRUE
  /\ UNCHANGED <<pc, query, results, callIdx, modeMask, typeLabel, startNodes,
                 endNodes, queried, end_walk_dist, info, pq, best_total,
                 best_end_node, pops, result, other, nearest>>
  /\ UNCHANGED stop_times

FindAllRoutesConc ==
  /\ pc = "idle" /\ loaded
  /\ \E sd \in ConcQueries :
       query' = [sLat |-> sd[1], sLon |-> 0, dLat |-> sd[2], dLon |-> 0]
  /\ results' = <<>>
  /\ callIdx' = 1
  /\ pc' = "call"
  /\ UNCHANGED <<graph, loaded, modeMask, typeLabel, startNodes, endNodes,
                 queried, end_walk_dist, info, pq, best_total, best_end_node,
                 pops, result, other, nearest>>
  /\ UNCHANGED stop_times

firstVars == <<graph, loaded, pc, query, results, callIdx, modeMask, typeLabel,
               startNodes, endNodes, queried, end_walk_dist, info, pq,
               best_total, best_end_node, pops, result, nearest, stop_times>>

\* FindPath of the second thread from its entry to the while loop, or to the
\* return of line 56
OtherEnter ==
  /\ loaded /\ other.pc = "idle"
  /\ \E sd \in ConcQueries, k \in 1 .. Len(RouteCalls) :
       LET q == [sLat |-> sd[1], sLon |-> 0, dLat |-> sd[2], dLon |-> 0]
           call == RouteCalls[k]
           rl == RadiusLoop(graph, q, call.mask, 1)
           st == InitialSearch(graph, q, rl.startNodes)
       IN  other' =
             IF rl.startNodes = <<>> \/ rl.endNodes = <<>>
             THEN [pc |-> "ret", query |-> q, modeMask |-> call.mask,
                   typeLabel |-> call.label, end_walk_dist |-> <<>>,
                   info |-> <<>>, pq |-> {}, best_total |-> INF,
                   best_end_node |-> -1,
                   result |-> EarlyResult(q, call.label)]
             ELSE [pc |-> "loop", query |-> q, modeMask |-> call.mask,
                   typeLabel |-> call.label,
                   end_walk_dist |-> EndWalkDist(graph, rl.endNodes),
                   info |-> st.info, pq |-> st.pq,
                   best_total |-> st.best_total,
                   best_end_node |-> st.best_end_node, result |-> NoResult]
  /\ UNCHANGED firstVars

\* the second thread's while loop had one array: its one iteration reads and
\* writes the info of the first thread's call
OtherPopSharedInfo ==
  /\ other.pc = "loop" /\ other.pq # {}
  /\ \E top \in TopEntries(other.pq) :
       LET shared == IF pc = "loop" THEN info ELSE other.info
           st == PopStep(graph, other.query, other.modeMask,
                         other.end_walk_dist,
                         [info |-> shared, pq |-> other.pq,
                          best_total |-> other.best_total,
                          best_end_node |-> other.best_end_node], top)
       IN  /\ other' = [other EXCEPT !.info = st.info, !.pq = st.pq,
                                      !.best_total = st.best_total,
                                      !.best_end_node = st.best_end_node]
           /\ info' = IF pc = "loop" THEN st.info ELSE info
  /\ UNCHANGED <<graph, loaded, pc, query, results, callIdx, modeMask,
                 typeLabel, startNodes, endNodes, queried, end_walk_dist, pq,
                 best_total, best_end_node, pops, result, nearest>>
  /\ UNCHANGED stop_times

\* one iteration of the second thread's while loop
OtherPop ==
  /\ other.pc = "loop" /\ other.pq # {}
  /\ \E top \in TopEntries(other.pq) :
       LET st == PopStep(graph, other.query, other.modeMask,
                         other.end_walk_dist,
                         [info |-> other.info, pq |-> other.pq,
                          best_total |-> other.best_total,
                          best_end_node |-> other.best_end_node], top)
       IN  other' = [other EXCEPT !.info = st.info, !.pq = st.pq,
                                  !.best_total = st.best_total,
                                  !.best_end_node = st.best_end_node]
  /\ UNCHANGED firstVars

\* the second thread's queue is empty: lines 133-188
OtherExit ==
  /\ other.pc = "loop" /\ other.pq = {}
  /\ other' = [other EXCEPT
                 !.pc = "ret",
                 !.result = BuildResult(graph, other.query, other.typeLabel,
                                        [info |-> other.info, pq |-> other.pq,
                                         best_total |-> other.best_total,
                                         best_end_node |->
                                           other.best_end_node])]
  /\ UNCHANGED firstVars

\* the second thread's FindPath has returned
OtherReturn ==
  /\ other.pc = "ret"
  /\ other' = NoCall
  /\ UNCHANGED firstVars

NextConc ==
  \/ LoadConcGTFS
  \/ FindAllRoutesConc
  \/ FindPathEnter
  \/ FindPathPop
  \/ FindPathExit
  \/ FindPathReturn
  \/ GetRouteReply
  \/ OtherEnter
  \/ OtherPop
  \/ OtherExit
  \/ OtherReturn

SpecConc == Init /\ [][NextConc]_vars

(***************************************************************************)
(* Feeds whose stops differ in longitude: generateTransferEdges and its    *)
(* grid at the equator and at the latitude of Cairo.                       *)
(***************************************************************************)
MaxGridStops == 4

\* 0 and 30 degrees north
GridLatitudes == {0, 30 * MetresPerDegree}

\* the places of the stops as <<metres north, metres east>> of a base point
GridOffsets == {<<0, 0>>, <<0, 1500>>, <<0, 3100>>, <<1450, 1500>>, <<700, 2200>>}

GridPlans == {<<>>, <<[kind |-> "bus", stops |-> <<1, 2>>]>>}

GridFeedOf(base, offs, plan) ==
  [FeedOf([i \in 1 .. Len(offs) |-> base + offs[i][1]],
          [i \in 1 .. Len(offs) |-> "B1_"], plan)
     EXCEPT !.stops = [i \in 1 .. Len(offs) |->
                         [@[i] EXCEPT !.lon = offs[i][2]]]]

GridFeeds ==
  UNION {{GridFeedOf(base, offs, plan) :
            base \in GridLatitudes, offs \in [1 .. n -> GridOffsets],
            plan \in GridPlans} : n \in 2 .. MaxGridStops}

LoadGridGTFS ==
  /\ pc = "idle" /\ ~loaded
  /\ \E feed \in GridFeeds : graph' = loadGTFS(graph, feed)
  /\ loaded' = TRUE
  /\ UNCHANGED <<pc, query, results, callIdx, modeMask, typeLabel, startNodes,
                 endNodes, queried, end_walk_dist, info, pq, best_total,
                 best_end_node, pops, result, other, nearest>>
  /\ UNCHANGED stop_times

NextGrid == LoadGridGTFS

SpecGrid == Init /\ [][NextGrid]_vars

(***************************************************************************)
(* Feeds whose stop times are in any order in the file, with rows of stops *)
(* that the stops file does not have.                                      *)
(***************************************************************************)
TimesLayout == <<0, 700, 2700>>

\* the rows the file may hold: trip and stop_sequence of each
TimesSlots ==
  << [trip_id |-> "T1", seq |-> 1], [trip_id |-> "T1", seq |-> 2],
     [trip_id |-> "T1", seq |-> 3], [trip_id |-> "T2", seq |-> 1],
     [trip_id |-> "T2", seq |-> 2] >>

\* the stop of a row: one of the three stops, a stop id that is in no stops
\* row (UnknownStop), or no row at all (NoRow)
NoRow == 0
UnknownStop == 9
TimesStops == {NoRow, 1, 2, 3, UnknownStop}

\* the orders of the rows in the file
TimesOrders == {<<1, 2, 3, 4, 5>>, <<5, 4, 3, 2, 1>>, <<3, 5, 1, 4, 2>>}

TimesRows(choice, order) ==
  LET all == [k \in 1 .. Len(order) |->
                [trip_id |-> TimesSlots[order[k]].trip_id,
                 stop_id |-> [prefix |-> "B1_", num |-> choice[order[k]]],
                 seq |-> TimesSlots[order[k]].seq]]
  IN  SelectSeq(all, LAMBDA e : e.stop_id.num # NoRow)

TimesFeedOf(kind, choice, order) ==
  [FeedOf(TimesLayout, [i \in 1 .. Len(TimesLayout) |-> "B1_"],
          <<[kind |-> kind, stops |-> <<>>], [kind |-> "metro", stops |-> <<>>]>>)
     EXCEPT !.stop_times = TimesRows(choice, order)]

LoadTimesGTFS ==
  /\ pc = "idle" /\ ~loaded
  /\ \E kind \in {"bus", "microbus"},
        choice \in [1 .. Len(TimesSlots) -> TimesStops],
        order \in TimesOrders :
       LET feed == TimesFeedOf(kind, choice, order)
       IN  /\ graph' = loadGTFS(graph, feed)
           /\ stop_times' = feed.stop_times
  /\ loaded' = TRUE
  /\ UNCHANGED <<pc, query, results, callIdx, modeMask, typeLabel, startNodes,
                 endNodes, queried, end_walk_dist, info, pq, best_total,
                 best_end_node, pops, result, other, nearest>>

NextTimes == LoadTimesGTFS

SpecTimes == Init /\ [][NextTimes]_vars

(***************************************************************************)
(* The loader row by row: stops.txt is read one row at a time, and         *)
(* findNearestNode is asked on the stops read so far.                      *)
(***************************************************************************)
LoaderIds ==
  {[prefix |-> "M_", num |-> 1], [prefix |-> "M_", num |-> 2],
   [prefix |-> "B1_", num |-> 1]}

StopRows ==
  [stop_id : LoaderIds, stop_name : {"A", "B"}, lat : {0, 700, 6000}, lon : {0}]

NearestPoints == {0, 5000, 5800}

NearestMasks == {RouteCalls[k].mask : k \in 1 .. Len(RouteCalls)}

\* one iteration of the while loop of loadStops
LoadStopRow ==
  /\ pc = "idle" /\ ~loaded
  /\ \E row \in StopRows : graph' = loadStops(graph, <<row>>)
  /\ nearest' = NoNearest
  /\ UNCHANGED <<loaded, pc, query, results, callIdx, modeMask, typeLabel,
                 startNodes, endNodes, queried, end_walk_dist, info, pq,
                 best_total, best_end_node, pops, result, other>>
  /\ UNCHANGED stop_times

\* both overloads of findNearestNode are called for one point
FindNearestNode ==
  /\ pc = "idle"
  /\ \E lat \in NearestPoints, mask \in NearestMasks :
       nearest' = [lat |-> lat, lon |-> 0, modeMask |-> mask,
                   any |-> findNearestNode(graph, lat, 0),
                   masked |-> findNearestNodeMode(graph, lat, 0, mask)]
  /\ UNCHANGED <<graph, loaded, pc, query, results, callIdx, modeMask,
                 typeLabel, startNodes, endNodes, queried, end_walk_dist,
                 info, pq, best_total, best_end_node, pops, result, other>>
  /\ UNCHANGED stop_times

NextLoader == LoadStopRow \/ FindNearestNode

SpecLoader == Init /\ [][NextLoader]_vars

(***************************************************************************)
(* Properties of FindPath, stated on the state in which a call has         *)
(* returned (pc = "ret": the locals of the call are still there)           *)
(***************************************************************************)
Returned == pc = "ret"

\* the call found boarding and alighting candidates and ran the search
Searched == pc = "ret" /\ startNodes # <<>> /\ endNodes # <<>>

MinOf(S) == CHOOSE x \in S : \A y \in S : x <= y

WalkTime(dist) == (dist * 100000) \div WALK_SPEED_MPS

DirectTime == WalkTime(Abs(query.dLat - query.sLat))

DirectEligible == Abs(query.dLat - query.sLat) <= 2 * MAX_WALK_DISTANCE

\* the segment of the direct walk of the query
OriginToDestination ==
  [startLon |-> query.sLon, startLat |-> query.sLat, startName |-> "Origin",
   endLon |-> query.dLon, endLat |-> query.dLat, endName |-> "Destination",
   method |-> "walking", numStops |-> 0]

\* the edges of the loaded graph the mask of the call allows, as
\* <<from, edge>>
AllowedEdges ==
  UNION {{<<u, graph.nodes[u].outgoing[k]>> :
            k \in 1 .. Len(graph.nodes[u].outgoing)} : u \in DOMAIN graph.nodes}

MaskedEdges == {ue \in AllowedEdges : BitAnd(ue[2].mode, modeMask) # 0}

BoardWalk == [u \in {p[1] : p \in {startNodes[k] : k \in 1 .. Len(startNodes)}} |->
                WalkTime((CHOOSE p \in {startNodes[k] : k \in 1 .. Len(startNodes)} :
                            p[1] = u)[2])]

AlightWalk == [u \in {p[1] : p \in {endNodes[k] : k \in 1 .. Len(endNodes)}} |->
                 WalkTime((CHOOSE p \in {endNodes[k] : k \in 1 .. Len(endNodes)} :
                             p[1] = u)[2])]

\* the journeys of the claim, by the state (stop, trip of the last edge):
\* the least cost of a journey prefix from a boarding candidate that ends in
\* that state, by relaxation to the fixpoint
JourneyStates ==
  (DOMAIN graph.nodes) \X ({"WALK"} \cup {ue[2].trip_id : ue \in MaskedEdges})

TransferCost(prevTrip, trip) ==
  IF prevTrip # "WALK" /\ trip # "WALK" /\ prevTrip # trip
  THEN TRANSFER_PENALTY ELSE 0

JourneySeed ==
  [s \in JourneyStates |->
     IF s[2] = "WALK" /\ s[1] \in DOMAIN BoardWalk THEN BoardWalk[s[1]] ELSE INF]

JourneyRelax(D) ==
  [s \in JourneyStates |->
     MinOf({D[s]} \cup
           {D[p[2]] + p[1][2].weight + TransferCost(p[2][2], s[2]) :
              p \in {x \in MaskedEdges \X JourneyStates :
                       /\ x[1][2].to = s[1] /\ x[1][2].trip_id = s[2]
                       /\ x[2][1] = x[1][1] /\ D[x[2]] < INF}})]

RECURSIVE JourneyFix(_, _)
JourneyFix(D, fuel) ==
  LET D2 == JourneyRelax(D)
  IN  IF D2 = D \/ fuel = 0 THEN D ELSE JourneyFix(D2, fuel - 1)

\* the minimum of claim C1: over the direct walk (when eligible) and every
\* journey boarding walk + edges + transfer penalties + alighting walk
MinJourney ==
  LET D == JourneyFix(JourneySeed, Cardinality(JourneyStates))
  IN  MinOf({INF} \cup (IF DirectEligible THEN {DirectTime} ELSE {})
            \cup {D[s] + AlightWalk[s[1]] :
                    s \in {x \in JourneyStates :
                             x[1] \in DOMAIN AlightWalk /\ D[x] < INF}})

\* C1 as claimed: whenever boarding and alighting candidates exist, the
\* totalDuration returned is the minimum over the direct walk and all journeys
C1_Original == Searched => result.totalDuration = MinJourney

\* C1 as amended: whenever boarding and alighting candidates exist, the
\* totalDuration returned is never below that minimum, and it is INF exactly
\* when the minimum is (no journey and no eligible direct walk)
C1_LowerBound ==
  Searched =>
    /\ result.totalDuration >= MinJourney
    /\ (result.totalDuration = INF) <=> (MinJourney = INF)

\* a search that returned a route over transit edges which is the minimum
C1_Witness ==
  /\ Searched /\ best_end_node >= 0
  /\ Len(result.segments) >= 3
  /\ result.totalDuration = MinJourney
  /\ \E k \in 1 .. Len(result.segments) : result.segments[k].method # "walking"

\* C2: when the direct distance is at most 2 * MAX_WALK_DISTANCE, FindPath
\* returns a found route that takes at most the direct walk's time
C2_DirectWalkBound ==
  (Returned /\ DirectEligible) =>
    /\ result.totalDuration < INF
    /\ result.totalDuration <= DirectTime
    /\ result.segments # <<>>

\* a search with candidates on a query short enough to walk
C2_Witness ==
  /\ Searched /\ DirectEligible /\ pops > 0
  /\ result.totalDuration <= DirectTime

\* both candidate sets are non-empty at the radius r
BothAt(r) ==
  /\ getNodesWithinRadiusMode(graph, query.sLat, query.sLon, r, modeMask) # <<>>
  /\ getNodesWithinRadiusMode(graph, query.dLat, query.dLon, r, modeMask) # <<>>

ExpectedRadii == <<MAX_WALK_DISTANCE, 2500, 4000, 6000>>

\* C3: the radii 1500, 2500, 4000, 6000 are queried in that order up to the
\* first at which both sets are non-empty (all four if there is none), and
\* the sets used are those of the last radius queried, both with the mask of
\* the call
C3_RadiusOrder ==
  (pc \in {"loop", "ret"}) =>
    /\ Len(queried) \in 1 .. Len(ExpectedRadii)
    /\ queried = SubSeq(ExpectedRadii, 1, Len(queried))
    /\ \A i \in 1 .. (Len(queried) - 1) : ~BothAt(queried[i])
    /\ BothAt(queried[Len(queried)]) \/ Len(queried) = Len(ExpectedRadii)
    /\ startNodes = getNodesWithinRadiusMode(graph, query.sLat, query.sLon,
                                             queried[Len(queried)], modeMask)
    /\ endNodes = getNodesWithinRadiusMode(graph, query.dLat, query.dLon,
                                           queried[Len(queried)], modeMask)

\* the loop stopped at a radius after the first and before the last
C3_Witness ==
  /\ pc = "loop"
  /\ Len(queried) \in {2, 3}
  /\ startNodes # <<>> /\ endNodes # <<>>

\* C4: when at every radius a candidate set is empty, no search runs and the
\* result is the direct walk if it is eligible and INF without segments if not
C4_NoCandidates ==
  (Returned /\ \A i \in 1 .. Len(ExpectedRadii) : ~BothAt(ExpectedRadii[i])) =>
    /\ pops = 0 /\ pq = {}
    /\ result = IF DirectEligible
                THEN [type |-> typeLabel, totalDuration |-> DirectTime,
                      segments |-> <<OriginToDestination>>]
                ELSE [type |-> typeLabel, totalDuration |-> INF,
                      segments |-> <<>>]

\* on a loaded graph only the alighting set is empty at the last radius, and
\* the call returns without a search
C4_Witness ==
  /\ Returned /\ startNodes # <<>> /\ endNodes = <<>>
  /\ queried = ExpectedRadii
  /\ result.segments = <<>>

\* the stops reachable from the boarding candidates over allowed edges
RECURSIVE ReachFrom(_, _)
ReachFrom(S, fuel) ==
  LET S2 == S \cup {ue[2].to : ue \in {x \in MaskedEdges : x[1] \in S}}
  IN  IF S2 = S \/ fuel = 0 THEN S ELSE ReachFrom(S2, fuel - 1)

AlightReachable ==
  (ReachFrom(DOMAIN BoardWalk, Cardinality(DOMAIN graph.nodes))
     \cap (DOMAIN AlightWalk)) # {}

\* C5: a returned RouteResult has no segments exactly when its totalDuration
\* is INF; and when no alighting candidate can be reached from a boarding
\* candidate and the direct walk is not eligible, it is INF without segments
C5_EmptyIffInf ==
  /\ Returned => ((result.segments = <<>>) <=> (result.totalDuration = INF))
  /\ \A k \in 1 .. Len(results) :
       (results[k].segments = <<>>) <=> (results[k].totalDuration = INF)
  /\ (Searched /\ ~DirectEligible /\ ~AlightReachable) =>
       (result.totalDuration = INF /\ result.segments = <<>>)

\* a search that ran and reached no alighting candidate
C5_Witness ==
  /\ Searched /\ pops > 0 /\ ~DirectEligible /\ ~AlightReachable
  /\ result.segments = <<>>

\* the path FindPath reconstructs, and its cost as claim C6 states it
ReturnedPath == ParentPath(info, best_end_node)

HopWeight(u, v, trip) ==
  LET es == {ue \in AllowedEdges :
               ue[1] = u /\ ue[2].to = v /\ ue[2].trip_id = trip}
  IN  IF es = {} THEN INF ELSE MinOf({ue[2].weight : ue \in es})

RECURSIVE HopsCost(_, _)
HopsCost(path, i) ==
  IF i > Len(path) THEN 0
  ELSE HopWeight(path[i - 1], path[i], info[path[i]].trip_id)
       + (IF i > 2
          THEN TransferCost(info[path[i - 1]].trip_id, info[path[i]].trip_id)
          ELSE 0)
       + HopsCost(path, i + 1)

PathCost(path) ==
  IF path[1] \notin DOMAIN BoardWalk THEN INF
  ELSE BoardWalk[path[1]] + HopsCost(path, 2) + AlightWalk[path[Len(path)]]

\* C6: for a found route that is not the direct walk, totalDuration is the
\* cost of the returned path: boarding walk + edge weights + one
\* TRANSFER_PENALTY per change between two non-WALK trips + alighting walk
C6_DurationIsPathCost ==
  (Searched /\ best_end_node >= 0) =>
    result.totalDuration = PathCost(ReturnedPath)

\* a returned path that changes between two trips
C6_Witness ==
  /\ Searched /\ best_end_node >= 0
  /\ \E i \in 3 .. Len(ReturnedPath) :
       TransferCost(info[ReturnedPath[i - 1]].trip_id,
                    info[ReturnedPath[i]].trip_id) > 0

\* C7: the segments of a found route form a chain from the query origin to
\* the query destination: each segment starts where the previous one ends
C7_SegmentChain ==
  (Returned /\ result.totalDuration < INF) =>
    LET segs == result.segments
    IN  /\ Len(segs) >= 1
        /\ segs[1].startLat = query.sLat /\ segs[1].startLon = query.sLon
        /\ segs[1].startName = "Origin"
        /\ segs[Len(segs)].endLat = query.dLat
        /\ segs[Len(segs)].endLon = query.dLon
        /\ segs[Len(segs)].endName = "Destination"
        /\ \A k \in 2 .. Len(segs) :
             /\ segs[k].startLat = segs[k - 1].endLat
             /\ segs[k].startLon = segs[k - 1].endLon
             /\ segs[k].startName = segs[k - 1].endName

\* a route with two runs between its leading and trailing walks
C7_Witness ==
  /\ Returned /\ result.totalDuration < INF
  /\ Len(result.segments) >= 4

\* C8 as claimed: with mask M | WALK, M one of BUS, METRO, MICROBUS, every
\* segment that is not "walking" has the method modeToString(M)
C8_ModeIsolation ==
  (Returned /\ modeMask \in {BUS + WALK, METRO + WALK, MICROBUS + WALK}) =>
    \A k \in 1 .. Len(result.segments) :
      result.segments[k].method # "walking" =>
        result.segments[k].method = modeToString(modeMask - WALK)

\* the search of the call run again from its start, each pop taking, among
\* the entries of least f_score, the one of the lowest stop index
LowestTop(tops) ==
  CHOOSE e \in tops :
    \A o \in tops : e.u < o.u \/ (e.u = o.u /\ e.g_score <= o.g_score)

RECURSIVE RunSearch(_)
RunSearch(st) ==
  IF st.pq = {} THEN st
  ELSE RunSearch(PopStep(graph, query, modeMask, end_walk_dist, st,
                         LowestTop(TopEntries(st.pq))))

ReferenceTotal == RunSearch(InitialSearch(graph, query, startNodes)).best_total

\* C9 as claimed: which of the entries of equal least f_score a pop takes
\* does not change totalDuration: every search returns the totalDuration of
\* the run that takes the entry of the lowest stop index each time
C9_TieIndependent ==
  Searched => result.totalDuration = ReferenceTotal

\* C10 as claimed: the optimal result of a FindAllRoutes call takes at most
\* as long as each of its bus_only, metro_only and microbus_only results
C10_OptimalIsFastest ==
  (pc = "done") =>
    \A k \in 1 .. 3 : results[4].totalDuration <= results[k].totalDuration

\* C12 as claimed: in every RouteResult FindPath returns, a segment whose
\* method is "walking" has numStops = 0, also one that stands for walking
\* transfer edges in the middle of the journey
C12_WalkingNumStops ==
  Returned =>
    \A k \in 1 .. Len(result.segments) :
      result.segments[k].method = "walking" =>
        result.segments[k].numStops = 0

\* C13 as claimed: after loadGTFS, for every transit edge getTripMode of its
\* trip id is the label of the edge's mode, and every walking edge has
\* trip_id "WALK" and mode WALK
C13_EdgeModeTrip ==
  loaded =>
    \A ue \in AllowedEdges :
      IF ue[2].mode = WALK \/ ue[2].trip_id = "WALK"
      THEN ue[2].mode = WALK /\ ue[2].trip_id = "WALK"
      ELSE getTripMode(graph, ue[2].trip_id) = modeToString(ue[2].mode)

\* C14: after the load every MICROBUS edge a -> b has an edge b -> a of the
\* same weight, trip id and mode; a BUS or METRO edge gets no reverse edge:
\* the trips of the feeds run northwards, and so does every BUS or METRO edge
C14_MicrobusReverse ==
  loaded =>
    \A ue \in AllowedEdges :
      /\ ue[2].mode = MICROBUS =>
           \E k \in 1 .. Len(graph.nodes[ue[2].to].outgoing) :
             graph.nodes[ue[2].to].outgoing[k] =
               [to |-> ue[1], weight |-> ue[2].weight,
                trip_id |-> ue[2].trip_id, mode |-> MICROBUS]
      /\ ue[2].mode \in {BUS, METRO} =>
           graph.nodes[ue[2].to].lat > graph.nodes[ue[1]].lat

\* a loaded graph with a microbus trip and a bus or metro trip
C14_Witness ==
  /\ loaded
  /\ \E ue \in AllowedEdges : ue[2].mode = MICROBUS
  /\ \E ue \in AllowedEdges : ue[2].mode \in {BUS, METRO}

\* the penalty of claim C19 for an entry that arrived on trip arrival and an
\* edge of trip edgeTrip
ChangePenalty(arrival, edgeTrip) ==
  IF arrival # "" /\ arrival # "WALK" /\ edgeTrip # "WALK" /\ arrival # edgeTrip
  THEN 60000 ELSE 0

\* C19: the entries a pop pushes have the g_score of the popped entry plus
\* the weight of an edge of the popped stop, plus TRANSFER_PENALTY exactly
\* when the popped entry's arrival trip and the edge's trip are two different
\* trips, neither of them "WALK"; the seeded entries arrive by "WALK"
C19_PenaltyRule ==
  [][(pc = "loop" /\ pc' = "loop" /\ pq # {}) =>
       \E top \in pq \ pq' :
         \A n \in pq' \ pq :
           \E k \in 1 .. Len(graph.nodes[top.u].outgoing) :
             LET edge == graph.nodes[top.u].outgoing[k]
             IN  /\ edge.to = n.u
                 /\ edge.trip_id = n.arrival_trip_id
                 /\ n.g_score = top.g_score + edge.weight
                                + ChangePenalty(top.arrival_trip_id, edge.trip_id)]_vars

\* an entry in the queue that paid the penalty, and one that boarded after
\* a walk and paid none
C19_Witness ==
  /\ pc = "loop"
  /\ \E n \in pq :
       /\ n.arrival_trip_id # "WALK"
       /\ info[n.u].parent >= 0
       /\ info[info[n.u].parent].trip_id \notin {"WALK", n.arrival_trip_id}
       /\ n.g_score = info[n.u].g_score
  /\ \E n \in pq :
       /\ n.arrival_trip_id # "WALK"
       /\ info[n.u].parent >= 0
       /\ info[info[n.u].parent].trip_id = "WALK"

\* the maximal runs of the returned path: the indices at which a run ends
RunEnds ==
  {i \in 2 .. Len(ReturnedPath) :
     \/ i = Len(ReturnedPath)
     \/ info[ReturnedPath[i + 1]].trip_id # info[ReturnedPath[i]].trip_id}

\* the index at which the run that ends at i starts
RunStart(i) ==
  IF \E j \in RunEnds : j < i
  THEN CHOOSE j \in RunEnds : j < i /\ \A o \in RunEnds : o < i => o <= j
  ELSE 1

\* the segments between the leading and the trailing walk
MiddleSegments == SubSeq(result.segments, 2, Len(result.segments) - 1)

RECURSIVE SumStops(_)
SumStops(segs) ==
  IF segs = <<>> THEN 0 ELSE Head(segs).numStops + SumStops(Tail(segs))

\* C20: for a found route that is not the direct walk, the segments between
\* the leading and the trailing walk are the maximal runs of path edges of
\* one trip id, in path order, each from the first to the last node of its
\* run with numStops the run's number of edges; these sum to the number of
\* edges of the path
C20_SegmentsAreRuns ==
  (Searched /\ best_end_node >= 0) =>
    LET ends == SeqOfSet(RunEnds)
    IN  /\ Len(MiddleSegments) = Len(ends)
        /\ \A k \in 1 .. Len(ends) :
             LET u == ReturnedPath[RunStart(ends[k])]
                 v == ReturnedPath[ends[k]]
             IN  MiddleSegments[k] =
                   [startLon |-> graph.nodes[u].lon,
                    startLat |-> graph.nodes[u].lat,
                    startName |-> graph.nodes[u].stop_name,
                    endLon |-> graph.nodes[v].lon,
                    endLat |-> graph.nodes[v].lat,
                    endName |-> graph.nodes[v].stop_name,
                    method |-> getTripMode(graph, info[v].trip_id),
                    numStops |-> ends[k] - RunStart(ends[k])]
        /\ SumStops(MiddleSegments) = Len(ReturnedPath) - 1

\* a route with a run of two edges of one trip
C20_Witness ==
  /\ Searched /\ best_end_node >= 0
  /\ \E k \in 1 .. Len(MiddleSegments) :
       MiddleSegments[k].numStops >= 2 /\ MiddleSegments[k].method # "walking"

\* C11: when the origin of the query is its destination, FindPath returns
\* totalDuration 0 and exactly one segment, the walk from origin to
\* destination, for every graph and mask, also with a stop at that point
C11_SamePoint ==
  (Returned /\ query.sLat = query.dLat /\ query.sLon = query.dLon) =>
    /\ result.totalDuration = 0
    /\ result.segments = <<OriginToDestination>>

\* a search ran on such a query with a boarding candidate at the point
C11_Witness ==
  /\ Searched /\ pops > 0
  /\ query.sLat = query.dLat /\ query.sLon = query.dLon
  /\ \E k \in 1 .. Len(startNodes) : startNodes[k][2] = 0
  /\ result.totalDuration = 0

\* C17 as claimed: when a coordinate of the query is outside the Earth range,
\* FindPath returns totalDuration INF and no segments
C17_OutOfRange ==
  (Returned /\ (OutOfRange(query.sLat) \/ OutOfRange(query.dLat))) =>
    /\ result.totalDuration = INF
    /\ result.segments = <<>>

\* C15: after any sequence of stop rows, the node ids are the indices
\* 0 .. N-1, the external stop ids are distinct and stop_id_map maps each to
\* the index of its node; a further row that repeats a loaded stop id leaves
\* the graph as it is, and any other row appends one node and changes none
C15_StopIdsStable ==
  LET N == Cardinality(DOMAIN graph.nodes)
  IN  /\ DOMAIN graph.nodes = 0 .. (N - 1)
      /\ \A k \in DOMAIN graph.nodes : graph.nodes[k].id = k
      /\ \A j, k \in DOMAIN graph.nodes :
           graph.nodes[j].gtfs_stop_id = graph.nodes[k].gtfs_stop_id => j = k
      /\ DOMAIN graph.stop_id_map =
           {graph.nodes[k].gtfs_stop_id : k \in DOMAIN graph.nodes}
      /\ \A k \in DOMAIN graph.nodes :
           graph.stop_id_map[graph.nodes[k].gtfs_stop_id] = k
      /\ \A row \in StopRows :
           LET g2 == loadStops(graph, <<row>>)
           IN  IF \E k \in DOMAIN graph.nodes :
                    graph.nodes[k].gtfs_stop_id = row.stop_id
               THEN g2.nodes = graph.nodes /\ g2.stop_id_map = graph.stop_id_map
               ELSE /\ DOMAIN g2.nodes = 0 .. N
                    /\ \A k \in DOMAIN graph.nodes : g2.nodes[k] = graph.nodes[k]
                    /\ g2.nodes[N].gtfs_stop_id = row.stop_id
                    /\ g2.nodes[N].lat = row.lat

\* two stops are loaded, and a row repeats the id of the first with another
\* latitude
C15_Witness ==
  /\ Cardinality(DOMAIN graph.nodes) >= 2
  /\ \E row \in StopRows :
       /\ row.stop_id = graph.nodes[0].gtfs_stop_id
       /\ row.lat # graph.nodes[0].lat

\* the distance of stop k from the point of the last findNearestNode calls
NearestDist(k) == Abs(graph.nodes[k].lat - nearest.lat)

\* the stops whose id has the prefix of a mode of the mask of these calls
NearestMatching ==
  {k \in DOMAIN graph.nodes :
     \/ graph.nodes[k].gtfs_stop_id.prefix = "M_"
        /\ nearest.modeMask \in {METRO + WALK, ANY + WALK}
     \/ graph.nodes[k].gtfs_stop_id.prefix = "B1_"
        /\ nearest.modeMask \in {BUS + WALK, ANY + WALK}
     \/ graph.nodes[k].gtfs_stop_id.prefix = "MB_"
        /\ nearest.modeMask \in {MICROBUS + WALK, ANY + WALK}}

\* C18: findNearestNode(lat, lon) is -1 only on a graph without stops and
\* else a stop of least distance; findNearestNode(lat, lon, modeMask) is a
\* nearest stop among those with a prefix of the mask when one of them lies
\* within 5000 m, and else what findNearestNode(lat, lon) returns
C18_NearestNode ==
  (nearest # NoNearest) =>
    /\ (nearest.any = -1) <=> (DOMAIN graph.nodes = {})
    /\ nearest.any # -1 =>
         /\ nearest.any \in DOMAIN graph.nodes
         /\ \A k \in DOMAIN graph.nodes :
              NearestDist(nearest.any) <= NearestDist(k)
    /\ IF \E k \in NearestMatching : NearestDist(k) <= 5000
       THEN /\ nearest.masked \in NearestMatching
            /\ \A k \in NearestMatching :
                 NearestDist(nearest.masked) <= NearestDist(k)
       ELSE nearest.masked = nearest.any

\* the nearest stop of the mask is farther than 5000 m and another stop is
\* returned; and a call where the stop of the mask is not the nearest stop
C18_Witness ==
  /\ nearest # NoNearest
  /\ NearestMatching # {}
  /\ \A k \in NearestMatching : NearestDist(k) > 5000
  /\ nearest.masked \notin NearestMatching

\* the results FindPath can return from the search state st when no other
\* call runs, over every order in which equal f_scores may be popped
RECURSIVE AloneFrom(_, _, _, _, _, _)
AloneFrom(g, q, mask, label, ewd, st) ==
  IF st.pq = {} THEN {BuildResult(g, q, label, st)}
  ELSE UNION {AloneFrom(g, q, mask, label, ewd,
                        PopStep(g, q, mask, ewd, st, top)) :
                top \in TopEntries(st.pq)}

\* the results of FindPath(g, q, mask, label) when it runs alone
AloneResults(g, q, mask, label) ==
  LET rl == RadiusLoop(g, q, mask, 1)
  IN  IF rl.startNodes = <<>> \/ rl.endNodes = <<>>
      THEN {EarlyResult(q, label)}
      ELSE AloneFrom(g, q, mask, label, EndWalkDist(g, rl.endNodes),
                     InitialSearch(g, q, rl.startNodes))

\* C16: with two calls interleaved on the loaded graph, a call that returns
\* returns a result it can return alone, and no step of a call changes the
\* graph
C16_ConcurrentCalls ==
  /\ [](pc = "ret" =>
          result \in AloneResults(graph, query, modeMask, typeLabel))
  /\ [](other.pc = "ret" =>
          other.result \in AloneResults(graph, other.query, other.modeMask,
                                        other.typeLabel))
  /\ [][loaded => graph' = graph]_vars

\* both calls went through their while loops at the same time, and the first
\* has returned a route while the second is about to return one
C16_Witness ==
  /\ pc = "ret" /\ pops > 0 /\ result.segments # <<>>
  /\ other.pc = "ret" /\ other.info # <<>> /\ other.result.segments # <<>>
  /\ other.query # query

\* the distance between two stops of the loaded graph
StopDist(i, j) ==
  haversine(graph.nodes[i].lat, graph.nodes[i].lon,
            graph.nodes[j].lat, graph.nodes[j].lon)

\* the walking edges of the loaded graph from stop i to stop j, as indices
\* into the outgoing edges of i
WalkEdges(i, j) ==
  {k \in 1 .. Len(graph.nodes[i].outgoing) :
     /\ graph.nodes[i].outgoing[k].to = j
     /\ graph.nodes[i].outgoing[k].mode = WALK}

\* C21 as claimed: after loadGTFS, two distinct stops at a distance greater
\* than 0 and at most MAX_WALK_DISTANCE have walking edges in both
\* directions, at any latitude
C21_WalkRangeCovered ==
  loaded =>
    \A i, j \in DOMAIN graph.nodes :
      (i # j /\ StopDist(i, j) > 0 /\ StopDist(i, j) <= MAX_WALK_DISTANCE) =>
        (WalkEdges(i, j) # {} /\ WalkEdges(j, i) # {})

\* C22: after generateTransferEdges, between two stops there is at most one
\* walking edge in each direction and the two directions go together; a
\* walking edge has the weight distance / WALK_SPEED in both directions,
\* joins two different stops, and these are at a distance greater than 0 and
\* at most MAX_WALK_DISTANCE
C22_WalkEdgesSymmetric ==
  loaded =>
    \A i, j \in DOMAIN graph.nodes :
      /\ Cardinality(WalkEdges(i, j)) <= 1
      /\ Cardinality(WalkEdges(i, j)) = Cardinality(WalkEdges(j, i))
      /\ \A k \in WalkEdges(i, j) :
           /\ i # j
           /\ StopDist(i, j) > 0
           /\ StopDist(i, j) <= MAX_WALK_DISTANCE
           /\ graph.nodes[i].outgoing[k] =
                [to |-> j, weight |-> (StopDist(i, j) * 100000) \div 140,
                 trip_id |-> "WALK", mode |-> WALK]
           /\ \A m \in WalkEdges(j, i) :
                graph.nodes[j].outgoing[m].weight
                  = graph.nodes[i].outgoing[k].weight

\* a loaded graph with two stops at one place, two stops joined by walking
\* edges across a cell border, and two stops too far apart to walk
C22_Witness ==
  /\ loaded
  /\ \E i, j \in DOMAIN graph.nodes : i # j /\ StopDist(i, j) = 0
  /\ \E i, j \in DOMAIN graph.nodes :
       /\ WalkEdges(i, j) # {}
       /\ graph.nodes[i].lat # graph.nodes[j].lat
       /\ graph.nodes[i].lon # graph.nodes[j].lon
  /\ \E i, j \in DOMAIN graph.nodes : StopDist(i, j) > MAX_WALK_DISTANCE

\* the rows of the file of one trip whose stop id is known
KnownRows(trip) ==
  {k \in 1 .. Len(stop_times) :
     /\ stop_times[k].trip_id = trip
     /\ stop_times[k].stop_id \in DOMAIN graph.stop_id_map}

\* the pairs of these rows that are adjacent in ascending stop_sequence order
\* and go from stop a to stop b
AdjacentRows(trip, a, b) ==
  {p \in KnownRows(trip) \X KnownRows(trip) :
     /\ stop_times[p[1]].seq < stop_times[p[2]].seq
     /\ \A k \in KnownRows(trip) :
          ~(stop_times[p[1]].seq < stop_times[k].seq
            /\ stop_times[k].seq < stop_times[p[2]].seq)
     /\ graph.stop_id_map[stop_times[p[1]].stop_id] = a
     /\ graph.stop_id_map[stop_times[p[2]].stop_id] = b}

\* the edges from a to b tagged with the trip
TripEdges(trip, a, b) ==
  {k \in 1 .. Len(graph.nodes[a].outgoing) :
     /\ graph.nodes[a].outgoing[k].to = b
     /\ graph.nodes[a].outgoing[k].trip_id = trip}

\* C23: whatever the order of the rows in the file, the edges tagged with a
\* trip are one edge a -> b for each pair of the trip's known rows adjacent
\* in ascending stop_sequence order (and, for a microbus trip, the reverse
\* edge of each); every transit edge is tagged with a trip of the file, so
\* none joins rows of different trips, and weighs at least STOP_DWELL_TIME
C23_TripEdges ==
  loaded =>
    /\ \A trip \in {"T1", "T2", "T3"} :
         \A a, b \in DOMAIN graph.nodes :
           Cardinality(TripEdges(trip, a, b)) =
             Cardinality(AdjacentRows(trip, a, b))
             + (IF \E k \in TripEdges(trip, a, b) :
                     graph.nodes[a].outgoing[k].mode = MICROBUS
                THEN Cardinality(AdjacentRows(trip, b, a)) ELSE 0)
    /\ \A ue \in AllowedEdges :
         ue[2].trip_id # "WALK" =>
           /\ ue[2].weight >= 30000
           /\ \E k \in 1 .. Len(stop_times) :
                stop_times[k].trip_id = ue[2].trip_id

\* the rows of a trip are in the file in descending order with a row of an
\* unknown stop between two known ones, and the edge that skips it is there
C23_Witness ==
  /\ loaded
  /\ \E i, j, k \in 1 .. Len(stop_times) :
       /\ i < k /\ k < j
       /\ stop_times[i].trip_id = "T1" /\ stop_times[j].trip_id = "T1"
       /\ stop_times[k].trip_id = "T1"
       /\ stop_times[i].seq = 3 /\ stop_times[k].seq = 2
       /\ stop_times[j].seq = 1
       /\ stop_times[k].stop_id \notin DOMAIN graph.stop_id_map
       /\ j \in KnownRows("T1") /\ i \in KnownRows("T1")
       /\ TripEdges("T1", graph.stop_id_map[stop_times[j].stop_id],
                    graph.stop_id_map[stop_times[i].stop_id]) # {}

\* following the parent pointers from curr ends at -1 within fuel steps
RECURSIVE ChainEnds(_, _)
ChainEnds(curr, fuel) ==
  IF curr = -1 THEN TRUE
  ELSE IF fuel = 0 THEN FALSE
  ELSE ChainEnds(info[curr].parent, fuel - 1)

\* C24: FindPath terminates.  An entry is pushed only with a g_score below
\* the one stored for its node, which then is at most the entry's, and no
\* stored g_score ever rises; from every node reached, so from best_end_node,
\* the parent pointers lead to a node with parent -1 within as many steps as
\* there are nodes; and every call that enters the while loop returns
C24_Terminates ==
  /\ [][(pc = "loop" /\ pc' = "loop") =>
          /\ \A n \in pq' \ pq :
               /\ n.g_score < info[n.u].g_score
               /\ info'[n.u].g_score <= n.g_score
          /\ \A u \in DOMAIN info : info'[u].g_score <= info[u].g_score]_vars
  /\ [](pc \in {"loop", "ret"} =>
          /\ \A u \in DOMAIN info :
               info[u].g_score < INF => ChainEnds(u, Cardinality(DOMAIN info))
          /\ best_end_node >= 0 =>
               ChainEnds(best_end_node, Cardinality(DOMAIN info)))
  /\ (pc = "loop") ~> (pc = "ret")

\* a search over edges that form a cycle (an edge and its reverse) went
\* through the while loop at least four times and ended with a path of
\* three stops or more
C24_Witness ==
  /\ Searched /\ pops >= 4 /\ best_end_node >= 0
  /\ Len(ReturnedPath) >= 3
  /\ \E ue \in MaskedEdges :
       \E k \in 1 .. Len(graph.nodes[ue[2].to].outgoing) :
         graph.nodes[ue[2].to].outgoing[k].to = ue[1]

\* the entry that carries the stored g_score of node u has been popped: u
\* was expanded, or cut off by best_total
Settled(u) ==
  /\ info[u].g_score < INF
  /\ \A e \in pq : ~(e.u = u /\ e.g_score = info[u].g_score)

\* the edges of the loaded graph weigh at least distance / MAX_SPEED
WeightsCoverDistance ==
  \A ue \in AllowedEdges :
    ue[2].weight >=
      (Abs(graph.nodes[ue[2].to].lat - graph.nodes[ue[1]].lat) * 100000)
        \div 2500

\* C25: once the entry with the stored g_score of a node has been popped,
\* no iteration changes the node's g_score, parent or trip or pushes an entry
\* for it, so the node is expanded at most once; and the entries still queued
\* for it have a higher g_score than the stored one, so they are skipped as
\* stale when popped
C25_ExpandedOnce ==
  /\ [][(pc = "loop" /\ pc' = "loop") =>
          \A u \in DOMAIN info :
            Settled(u) =>
              /\ info'[u] = info[u]
              /\ \A n \in pq' \ pq : n.u # u]_vars
  /\ [](pc = "loop" =>
          /\ WeightsCoverDistance
          /\ \A e \in pq :
               Settled(e.u) => e.g_score > info[e.u].g_score)

\* a stale entry is queued for a node that has been expanded, and other
\* entries are still to be popped
C25_Witness ==
  /\ pc = "loop"
  /\ \E e \in pq : Settled(e.u) /\ e.g_score > info[e.u].g_score
  /\ \E e \in pq : ~Settled(e.u)
  /\ \E u \in DOMAIN info : Settled(u) /\ info[u].parent >= 0

\* the search of the call without the two tests against best_total: an edge
\* is relaxed whenever newG is below the stored g_score of its target
RelaxEdgeNoPrune(st, top, edge) ==
  IF BitAnd(edge.mode, modeMask) = 0 THEN st
  ELSE
    LET newG == top.g_score + EdgeCost(top, edge)
    IN  IF newG < st.info[edge.to].g_score
        THEN [st EXCEPT
                !.info[edge.to] = [g_score |-> newG, parent |-> top.u,
                                   trip_id |-> edge.trip_id],
                !.pq = @ \cup {[u |-> edge.to, g_score |-> newG,
                                f_score |-> newG + heuristic(graph, query,
                                                             edge.to),
                                arrival_trip_id |-> edge.trip_id]}]
        ELSE st

RECURSIVE RelaxEdgesNoPrune(_, _, _)
RelaxEdgesNoPrune(st, top, edges) ==
  IF edges = <<>> THEN st
  ELSE RelaxEdgesNoPrune(RelaxEdgeNoPrune(st, top, Head(edges)), top,
                         Tail(edges))

\* and a popped entry is skipped only when it is stale
PopStepNoPrune(st, top) ==
  LET popped == [st EXCEPT !.pq = @ \ {top}]
  IN  IF top.g_score > st.info[top.u].g_score THEN popped
      ELSE RelaxEdgesNoPrune(EndCheck(end_walk_dist, popped, top), top,
                             graph.nodes[top.u].outgoing)

\* the values best_total can have at the end of that search, over every
\* order in which entries of equal f_score may be popped
RECURSIVE NoPruneTotals(_)
NoPruneTotals(st) ==
  IF st.pq = {} THEN {st.best_total}
  ELSE UNION {NoPruneTotals(PopStepNoPrune(st, top)) :
                top \in TopEntries(st.pq)}

\* C26: the totalDuration a search returns is one that the same search
\* returns without the two tests against best_total
C26_PruningKeepsAnswer ==
  Searched =>
    result.totalDuration
      \in NoPruneTotals(InitialSearch(graph, query, startNodes))

\* the search returned a route over edges and refused a relaxation because
\* of best_total: an allowed edge leaves a node that was expanded (its
\* g_score is below the total returned) for a node that never got a g_score
C26_Witness ==
  /\ Searched /\ pops >= 2 /\ best_end_node >= 0
  /\ \E ue \in MaskedEdges :
       /\ info[ue[1]].g_score < result.totalDuration
       /\ info[ue[2].to].g_score = INF

\* C27: when FindPath reconstructs a path, best_end_node is an alighting
\* candidate; the path from the node without parent to best_end_node has no
\* node twice; its first node is a boarding candidate that still has the
\* g_score of its seed (boarding walk / WALK_SPEED) and the trip "WALK"; and
\* the stored g_score rises strictly from each node of the path to the next
C27_PathFromSeed ==
  (Searched /\ best_end_node >= 0) =>
    LET path == ReturnedPath
    IN  /\ end_walk_dist[best_end_node] >= 0
        /\ \E k \in 1 .. Len(endNodes) : endNodes[k][1] = best_end_node
        /\ path[Len(path)] = best_end_node
        /\ \A i, j \in 1 .. Len(path) : path[i] = path[j] => i = j
        /\ \E k \in 1 .. Len(startNodes) :
             /\ startNodes[k][1] = path[1]
             /\ info[path[1]].g_score = (startNodes[k][2] * 100000) \div 140
        /\ info[path[1]].parent = -1
        /\ info[path[1]].trip_id = "WALK"
        /\ \A i \in 2 .. Len(path) :
             info[path[i - 1]].g_score < info[path[i]].g_score

\* a path of three stops or more on which a later stop is a boarding
\* candidate too, with a g_score below that of its seed
C27_Witness ==
  /\ Searched /\ best_end_node >= 0
  /\ Len(ReturnedPath) >= 3
  /\ \E i \in 2 .. Len(ReturnedPath) :
       /\ ReturnedPath[i] \in DOMAIN BoardWalk
       /\ info[ReturnedPath[i]].g_score < BoardWalk[ReturnedPath[i]]

\* no transfer penalty can apply: the transit edges the mask allows carry
\* at most one trip id
NoPenaltyPossible ==
  Cardinality({ue[2].trip_id : ue \in MaskedEdges} \ {"WALK"}) <= 1

\* the reference: the least weight of a path over allowed edges from a
\* boarding candidate, boarding walk included, by relaxation to the fixpoint
DijkstraSeed ==
  [u \in DOMAIN graph.nodes |->
     IF u \in DOMAIN BoardWalk THEN BoardWalk[u] ELSE INF]

DijkstraRelax(D) ==
  [v \in DOMAIN graph.nodes |->
     MinOf({D[v]} \cup {D[ue[1]] + ue[2].weight :
                          ue \in {x \in MaskedEdges :
                                    x[2].to = v /\ D[x[1]] < INF}})]

RECURSIVE DijkstraFix(_, _)
DijkstraFix(D, fuel) ==
  LET D2 == DijkstraRelax(D)
  IN  IF D2 = D \/ fuel = 0 THEN D ELSE DijkstraFix(D2, fuel - 1)

DijkstraMin ==
  LET D == DijkstraFix(DijkstraSeed, Cardinality(DOMAIN graph.nodes))
  IN  MinOf({INF} \cup (IF DirectEligible THEN {DirectTime} ELSE {})
            \cup {D[e] + AlightWalk[e] :
                    e \in {x \in DOMAIN AlightWalk : D[x] < INF}})

\* C28: when the transit edges the mask allows carry at most one trip id,
\* the totalDuration FindPath returns is the least of the direct walk (when
\* eligible) and, over boarding candidate b and alighting candidate e, of
\* boarding walk + least path weight from b to e + alighting walk
C28_ExactWithoutPenalty ==
  (Returned /\ NoPenaltyPossible) => result.totalDuration = DijkstraMin

\* such a search returned a route that boards the one trip and rides two
\* edges of it, with a walking edge allowed as well
C28_Witness ==
  /\ Searched /\ NoPenaltyPossible /\ best_end_node >= 0
  /\ result.totalDuration = DijkstraMin
  /\ \E ue \in MaskedEdges : ue[2].trip_id = "WALK"
  /\ \E k \in 1 .. Len(result.segments) :
       result.segments[k].method # "walking" /\ result.segments[k].numStops >= 2

TypeOK ==
  /\ pc \in {"idle", "call", "loop", "ret", "done"}
  /\ best_total <= INF
  /\ other.pc \in {"idle", "loop", "ret"}
====
